---- MODULE Spec2Model ----
(***************************************************************************)
(* Model of the Fiverr search-results scraper: the `search_results`        *)
(* handler of src/src/routes.ts (block check, in-page extraction, push to  *)
(* the dataset, continuation decision) driven by the PlaywrightCrawler     *)
(* configured in src/unnamed/part_003 (one handler at a time, retries).    *)
(*                                                                         *)
(* Text is a sequence of one-character strings, so that trimming,          *)
(* lower-casing, substring search and digit parsing are computed as the    *)
(* code computes them.                                                     *)
(***************************************************************************)
EXTENDS Integers, Sequences, FiniteSets, TLC

(***************************************************************************)
(* Bounds of the model.                                                    *)
(***************************************************************************)
\* largest page limit `pages` a run is started with
MaxPages == 3
\* handler invocations that may fail in one run (blocked page or thrown
\* runtime error)
MaxFaults == 2
\* retries the runtime grants a request (maxRequestRetries; the code sets 8,
\* the model a budget that the faults of one run can exhaust)
MaxRetries == MaxFaults - 1

(***************************************************************************)
(* Text helpers: JavaScript string operations on character sequences.      *)
(***************************************************************************)
UpperChars == <<"A","B","C","D","E","F","G","H","I","J","K","L","M",
                "N","O","P","Q","R","S","T","U","V","W","X","Y","Z">>
LowerChars == <<"a","b","c","d","e","f","g","h","i","j","k","l","m",
                "n","o","p","q","r","s","t","u","v","w","x","y","z">>
DigitChars == <<"0","1","2","3","4","5","6","7","8","9">>

\* String.prototype.toLowerCase on one character
ToLowerChar(c) ==
    IF \E i \in 1..26 : UpperChars[i] = c
    THEN LowerChars[CHOOSE i \in 1..26 : UpperChars[i] = c]
    ELSE c

\* String.prototype.toUpperCase on one character
ToUpperChar(c) ==
    IF \E i \in 1..26 : LowerChars[i] = c
    THEN UpperChars[CHOOSE i \in 1..26 : LowerChars[i] = c]
    ELSE c

\* String.prototype.toLowerCase
ToLower(s) == [i \in 1..Len(s) |-> ToLowerChar(s[i])]

\* the regular-expression class \d
IsDigit(c) == \E i \in 1..10 : DigitChars[i] = c

\* the regular-expression class \s (the model's texts use blank, tab, newline)
IsSpace(c) == c \in {" ", "\t", "\n"}

\* value of one decimal digit
DigitVal(c) == (CHOOSE i \in 1..10 : DigitChars[i] = c) - 1

\* String.prototype.startsWith
StartsWith(s, pre) == Len(s) >= Len(pre) /\ SubSeq(s, 1, Len(pre)) = pre

\* first index at which `sub` occurs in `s`, 0 when it does not occur
IndexOf(s, sub) ==
    IF \E i \in 1..(Len(s) - Len(sub) + 1) : SubSeq(s, i, i + Len(sub) - 1) = sub
    THEN CHOOSE i \in 1..(Len(s) - Len(sub) + 1) :
            /\ SubSeq(s, i, i + Len(sub) - 1) = sub
            /\ \A j \in 1..(i - 1) : SubSeq(s, j, j + Len(sub) - 1) # sub
    ELSE 0

\* String.prototype.includes
Includes(s, sub) == Len(sub) = 0 \/ IndexOf(s, sub) > 0

\* String.prototype.trim
RECURSIVE TrimLeft(_)
TrimLeft(s) == IF Len(s) > 0 /\ IsSpace(s[1]) THEN TrimLeft(Tail(s)) ELSE s

RECURSIVE TrimRight(_)
TrimRight(s) ==
    IF Len(s) > 0 /\ IsSpace(s[Len(s)]) THEN TrimRight(SubSeq(s, 1, Len(s) - 1)) ELSE s

Trim(s) == TrimRight(TrimLeft(s))

\* String.prototype.replace(/\s+/g, ' ')
RECURSIVE CollapseSpaces(_)
CollapseSpaces(s) ==
    IF Len(s) = 0 THEN <<>>
    ELSE IF IsSpace(s[1])
         THEN <<" ">> \o CollapseSpaces(TrimLeft(s))
         ELSE <<s[1]>> \o CollapseSpaces(Tail(s))

\* String.prototype.replace(/from/g, to) for a literal pattern
RECURSIVE ReplaceAll(_, _, _)
ReplaceAll(s, from, to) ==
    IF Len(s) = 0 THEN <<>>
    ELSE IF StartsWith(s, from)
         THEN to \o ReplaceAll(SubSeq(s, Len(from) + 1, Len(s)), from, to)
         ELSE <<s[1]>> \o ReplaceAll(Tail(s), from, to)

\* value of a run of decimal digits (parseInt of a \d+ match)
RECURSIVE DigitsValue(_)
DigitsValue(ds) ==
    IF Len(ds) = 0 THEN 0
    ELSE 10 * DigitsValue(SubSeq(ds, 1, Len(ds) - 1)) + DigitVal(ds[Len(ds)])

\* the longest run of digits that starts at index i of s
RECURSIVE DigitRun(_, _)
DigitRun(s, i) ==
    IF i <= Len(s) /\ IsDigit(s[i]) THEN <<s[i]>> \o DigitRun(s, i + 1) ELSE <<>>

\* index of the first digit of s, 0 when s holds none
FirstDigitAt(s) ==
    IF \E i \in 1..Len(s) : IsDigit(s[i])
    THEN CHOOSE i \in 1..Len(s) : IsDigit(s[i]) /\ \A j \in 1..(i - 1) : ~IsDigit(s[j])
    ELSE 0

\* 10^k
RECURSIVE Pow10(_)
Pow10(k) == IF k = 0 THEN 1 ELSE 10 * Pow10(k - 1)

\* the text given as a list of one-character strings, joined with blanks
\* between the words of a list of words
RECURSIVE JoinWords(_)
JoinWords(ws) ==
    IF Len(ws) = 0 THEN <<>>
    ELSE IF Len(ws) = 1 THEN ws[1]
    ELSE ws[1] \o <<" ">> \o JoinWords(Tail(ws))

(***************************************************************************)
(* The in-page helpers of the extraction (routes.ts, inside page.evaluate) *)
(***************************************************************************)
\* variant of cleanText that decodes the ampersand entity: &amp; becomes &
cleanTextDecoding(text) ==
    Trim(CollapseSpaces(
        ReplaceAll(ReplaceAll(text, <<"&","a","m","p",";">>, <<"&">>),
                   <<"&","#","3","9",";">>, <<"'">>)))

\* cleanText: the entity replacements as the source file spells them (the
\* first four replace a character by itself), then whitespace collapsing
\* and trimming
cleanText(text) ==
    Trim(CollapseSpaces(
        ReplaceAll(
            ReplaceAll(ReplaceAll(ReplaceAll(ReplaceAll(text,
                <<"&">>, <<"&">>), <<"<">>, <<"<">>), <<">">>, <<">">>),
                <<"\"">>, <<"\"">>),
            <<"&","#","3","9",";">>, <<"'">>)))

\* an element a selector did not find (querySelector returned null)
NoElem == [present |-> FALSE]

\* the element the i-th selector of a strategy list finds in a container;
\* `els` lists, per selector in declared order, what querySelector returns
Elem(els, i) == IF i <= Len(els) THEN els[i] ELSE NoElem

titleSelectors == <<"h3 a", "h2 a", "h4 a", ".gig-title a", "[data-gig-title] a",
                    "a[data-impression-collected]", ".gig-link",
                    "a[href*=/gigs/]", "[data-impression-gig-title]">>

ratingSelectors == <<".rating-score", ".star-rating-score", "[data-rating]",
                     ".gig-rating", ".rating-wrapper span", ".rating span",
                     "[aria-label*=star]", ".stars-rating", ".rating-text">>

reviewSelectors == <<".rating-count", ".reviews-count", "[data-reviews-count]",
                     ".rating-wrapper .count", ".review-count",
                     "[class*=review]", ".rating-text">>

priceSelectors == <<".price", ".gig-price", "[data-price]", ".price-wrapper",
                    ".starting-at", ".price-display", "[class*=price]",
                    ".package-price">>

sellerSelectors == <<".seller-name", ".username", "[data-seller]",
                     ".seller-info .name", ".seller-link", "[class*=seller]",
                     ".user-name", ".profile-name">>

levelSelectors == <<".seller-level", "[data-seller-level]", "[class*=level]",
                    ".badge", ".seller-badge">>

imgSelectors == <<"img[src]", "img[data-src]", "img[data-lazy-src]",
                  "[style*=background-image]">>

\* index in titleSelectors of 'a[href*="/gigs/"]', the selector the separate
\* link search of the handler uses as well
GigLinkSelector == CHOOSE i \in 1..Len(titleSelectors) : titleSelectors[i] = "a[href*=/gigs/]"

\* the title selector loop: st holds title, link and titleElement as the
\* loop leaves them; a text longer than 5 characters ends the loop
RECURSIVE TitleLoop(_, _, _)
TitleLoop(els, i, st) ==
    IF i > Len(titleSelectors) THEN st
    ELSE LET e == Elem(els, i) IN
         IF e.present
         THEN LET t == Trim(e.text) IN
              IF Len(t) > 5
              THEN [title |-> cleanText(t), link |-> e.href, found |-> TRUE]
              ELSE TitleLoop(els, i + 1, [title |-> t, link |-> e.href, found |-> TRUE])
         ELSE TitleLoop(els, i + 1, [st EXCEPT !.found = FALSE])

\* title and link of a container: the data attribute first, then the
\* selector loop, then the link fallbacks; ok is the acceptance test
ResolveTitleLink(c) ==
    LET fromData == IF Len(Trim(c.dataTitle)) > 5 THEN cleanText(c.dataTitle) ELSE <<>>
        st0 == [title |-> fromData, link |-> <<>>, found |-> FALSE]
        st1 == IF Len(fromData) = 0 THEN TitleLoop(c.titleEls, 1, st0) ELSE st0
        \* link was read from the same element already; reading it again
        \* gives the same href
        gl  == Elem(c.titleEls, GigLinkSelector)
        link == IF Len(st1.link) = 0 /\ gl.present THEN gl.href ELSE st1.link
    IN [title |-> st1.title, link |-> link,
        ok |-> ~(Len(st1.title) = 0 \/ Len(st1.title) < 5 \/ Len(link) = 0)]

\* ratingText of one rating element: trimmed text, else aria-label, else
\* data-rating, else "0"
RatingText(e) ==
    IF Len(Trim(e.text)) > 0 THEN Trim(e.text)
    ELSE IF Len(e.aria) > 0 THEN e.aria
    ELSE IF Len(e.dataRating) > 0 THEN e.dataRating
    ELSE <<"0">>

\* ratingText.match(/(\d+\.?\d*)/) and parseFloat of the match, as the
\* fraction num/den; ok is FALSE when the text holds no digit
ParseRating(t) ==
    LET i    == FirstDigitAt(t)
        ip   == DigitRun(t, i)
        j    == i + Len(ip)
        frac == IF i > 0 /\ j <= Len(t) /\ t[j] = "." THEN DigitRun(t, j + 1) ELSE <<>>
    IN IF i = 0 THEN [ok |-> FALSE, num |-> 0, den |-> 1]
       ELSE [ok |-> TRUE, num |-> DigitsValue(ip \o frac), den |-> Pow10(Len(frac))]

\* variant of the rating of one strategy without the range test
RatingOfNoRange(e) ==
    LET p == ParseRating(RatingText(e)) IN
    IF e.present /\ p.ok
    THEN (20 * p.num + p.den) \div (2 * p.den)
    ELSE 0

\* the rating one strategy yields, in tenths (Math.round(parsed * 10) / 10),
\* 0 when the strategy yields none
RatingOf(e) ==
    LET p == ParseRating(RatingText(e)) IN
    IF e.present /\ p.ok /\ p.num >= p.den /\ p.num <= 5 * p.den
    THEN (20 * p.num + p.den) \div (2 * p.den)
    ELSE 0

\* the rating selector loop: the first strategy with a valid rating wins
RECURSIVE RatingLoop(_, _)
RatingLoop(els, i) ==
    IF i > Len(ratingSelectors) THEN 0
    ELSE IF Elem(els, i).present /\ RatingOf(Elem(els, i)) # 0 THEN RatingOf(Elem(els, i))
    ELSE RatingLoop(els, i + 1)

\* the review count one strategy yields: reviewText.match(/\(?(\d+)\)?/),
\* parseInt, accepted when 0 < n < 50000; 0 when the strategy yields none
ReviewUpper == 50000

ReviewOf(e) ==
    LET t == IF e.present /\ Len(Trim(e.text)) > 0 THEN Trim(e.text) ELSE <<"0">>
        i == FirstDigitAt(t)
        n == IF i = 0 THEN 0 ELSE DigitsValue(DigitRun(t, i))
    IN IF e.present /\ n > 0 /\ n < ReviewUpper THEN n ELSE 0

RECURSIVE ReviewLoop(_, _)
ReviewLoop(els, i) ==
    IF i > Len(reviewSelectors) THEN 0
    ELSE IF ReviewOf(Elem(els, i)) # 0 THEN ReviewOf(Elem(els, i))
    ELSE ReviewLoop(els, i + 1)

\* the currency glyphs the price filter knows
IsGlyph(ch) == ch \in {"$", "€", "£"}

\* priceText.match(/[\$€£](\d+)/): index of the first glyph that a digit
\* follows, 0 when there is none
GlyphDigitAt(t) ==
    IF \E i \in 1..(Len(t) - 1) : IsGlyph(t[i]) /\ IsDigit(t[i + 1])
    THEN CHOOSE i \in 1..(Len(t) - 1) :
            /\ IsGlyph(t[i]) /\ IsDigit(t[i + 1])
            /\ \A j \in 1..(i - 1) : ~(IsGlyph(t[j]) /\ IsDigit(t[j + 1]))
    ELSE 0

PriceUpper == 10000

\* the price one strategy yields, <<>> when it yields none
PriceOf(e) ==
    LET t == IF e.present THEN Trim(e.text) ELSE <<>>
        i == GlyphDigitAt(t)
        n == IF i = 0 THEN 0 ELSE DigitsValue(DigitRun(t, i + 1))
    IN IF /\ Len(t) > 0
          /\ \E k \in 1..Len(t) : IsGlyph(t[k])
          /\ i > 0 /\ n > 0 /\ n < PriceUpper
       THEN IF Includes(t, <<"F","r","o","m">>) THEN t
            ELSE <<"F","r","o","m"," ">> \o t
       ELSE <<>>

RECURSIVE PriceLoop(_, _)
PriceLoop(els, i) ==
    IF i > Len(priceSelectors) THEN <<>>
    ELSE IF Len(PriceOf(Elem(els, i))) > 0 THEN PriceOf(Elem(els, i))
    ELSE PriceLoop(els, i + 1)

\* the seller one strategy yields (length filter on the trimmed text, then
\* cleanText), <<>> when it yields none
SellerOf(e) ==
    LET t == IF e.present THEN Trim(e.text) ELSE <<>> IN
    IF Len(t) > 1 /\ Len(t) < 50 THEN cleanText(t) ELSE <<>>

\* the loop ends at the first strategy that passes the length filter
RECURSIVE SellerLoop(_, _)
SellerLoop(els, i) ==
    IF i > Len(sellerSelectors) THEN <<>>
    ELSE LET t == IF Elem(els, i).present THEN Trim(Elem(els, i).text) ELSE <<>> IN
         IF Len(t) > 1 /\ Len(t) < 50 THEN SellerOf(Elem(els, i))
         ELSE SellerLoop(els, i + 1)

\* the seller level: the first level text naming Level, Pro or Top, else
\* the default
RECURSIVE LevelLoop(_, _)
LevelLoop(els, i) ==
    IF i > Len(levelSelectors) THEN <<"L","e","v","e","l"," ","1">>
    ELSE LET t == IF Elem(els, i).present THEN Trim(Elem(els, i).text) ELSE <<>> IN
         IF \/ Includes(t, <<"L","e","v","e","l">>) /\ Len(t) > 0
            \/ Includes(t, <<"P","r","o">>) /\ Len(t) > 0
            \/ Includes(t, <<"T","o","p">>) /\ Len(t) > 0
         THEN cleanText(t)
         ELSE LevelLoop(els, i + 1)

\* the image URL of one image element: src, else data-src, else
\* data-lazy-src, else the URL of a background-image style (bgUrl is what
\* the style's url(...) holds, <<>> without such a style)
ImgUrl(e) ==
    IF Len(e.src) > 0 THEN e.src
    ELSE IF Len(e.dataSrc) > 0 THEN e.dataSrc
    ELSE IF Len(e.lazySrc) > 0 THEN e.lazySrc
    ELSE e.bgUrl

\* the thumbnail one strategy yields: absolute and protocol-relative URLs
\* only, the latter prefixed with https:
ThumbOf(e) ==
    LET u == IF e.present THEN ImgUrl(e) ELSE <<>> IN
    IF Len(u) > 0 /\ StartsWith(u, <<"h","t","t","p">>) THEN u
    ELSE IF Len(u) > 0 /\ StartsWith(u, <<"/","/">>) THEN <<"h","t","t","p","s",":">> \o u
    ELSE <<>>

RECURSIVE ThumbLoop(_, _)
ThumbLoop(els, i) ==
    IF i > Len(imgSelectors) THEN <<>>
    ELSE IF Len(ThumbOf(Elem(els, i))) > 0 THEN ThumbOf(Elem(els, i))
    ELSE ThumbLoop(els, i + 1)

\* String.prototype.split(' ')
RECURSIVE Split(_)
Split(s) ==
    LET i == IndexOf(s, <<" ">>) IN
    IF i = 0 THEN <<s>>
    ELSE <<SubSeq(s, 1, i - 1)>> \o Split(SubSeq(s, i + 1, Len(s)))

\* word.charAt(0).toUpperCase() + word.slice(1).toLowerCase()
Capitalize(w) ==
    IF Len(w) = 0 THEN <<>> ELSE <<ToUpperChar(w[1])>> \o ToLower(Tail(w))

\* [...new Set(xs)]: the first occurrence of every element, in order
RECURSIVE Distinct(_, _)
Distinct(xs, seen) ==
    IF Len(xs) = 0 THEN <<>>
    ELSE IF \E k \in 1..Len(seen) : seen[k] = xs[1]
         THEN Distinct(Tail(xs), seen)
         ELSE <<xs[1]>> \o Distinct(Tail(xs), seen \o <<xs[1]>>)

commonTags == << <<"S","E","O">>, <<"M","a","r","k","e","t","i","n","g">>,
                 <<"C","o","n","t","e","n","t">>, <<"W","r","i","t","i","n","g">>,
                 <<"D","i","g","i","t","a","l">>,
                 <<"P","r","o","f","e","s","s","i","o","n","a","l">>,
                 <<"Q","u","a","l","i","t","y">> >>

\* generateTags(title, keyword)
generateTags(title, keyword) ==
    LET kw == Split(keyword)
        keywordTags == [i \in 1..Len(kw) |-> Capitalize(kw[i])]
        titleWords  == Split(ToLower(title))
        Relevant(tag) == \E k \in 1..Len(titleWords) : Includes(titleWords[k], ToLower(tag))
        relevantTags == SelectSeq(commonTags, Relevant)
        all == Distinct(keywordTags \o relevantTags, <<>>)
    IN SubSeq(all, 1, IF Len(all) < 4 THEN Len(all) ELSE 4)

\* decimal text of a natural number
RECURSIVE IntText(_)
IntText(n) ==
    IF n < 10 THEN <<DigitChars[n + 1]>>
    ELSE IntText(n \div 10) \o <<DigitChars[(n % 10) + 1]>>

\* the id of a record: data-gig-id, else data-gig, else
\* gig-<Date.now()>-<index>-<random suffix>; ent holds what the clock and
\* the random source return during this extraction
GigId(c, index, ent) ==
    IF Len(c.dataGigId) > 0 THEN c.dataGigId
    ELSE IF Len(c.dataGig) > 0 THEN c.dataGig
    ELSE <<"g","i","g","-">> \o IntText(ent.now) \o <<"-">> \o IntText(index)
            \o <<"-">> \o ent.rnd

\* link.startsWith('http') ? link : `https://www.fiverr.com${link}`
AbsLink(link) ==
    IF StartsWith(link, <<"h","t","t","p">>) THEN link
    ELSE <<"h","t","t","p","s",":","/","/","w","w","w",".","f","i","v","e","r","r",
           ".","c","o","m">> \o link

\* variant of the per-container processing without the rating rejection
\* of line 430 (the earliest routes variant validates nothing)
ProcessElementNoRatingCheck(c, index, keyword, ent) ==
    LET tl        == ResolveTitleLink(c)
        rating    == RatingLoop(c.ratingEls, 1)
        reviews   == ReviewLoop(c.reviewEls, 1)
        price     == PriceLoop(c.priceEls, 1)
        seller    == SellerLoop(c.sellerEls, 1)
        thumbnail == ThumbLoop(c.imgEls, 1)
    IN IF c.throws THEN <<>>
       ELSE IF ~tl.ok THEN <<>>
       ELSE IF reviews = 0 THEN <<>>
       ELSE IF Len(price) = 0 THEN <<>>
       ELSE IF Len(seller) = 0 THEN <<>>
       ELSE IF Len(thumbnail) = 0 THEN <<>>
       ELSE << [id          |-> GigId(c, index, ent),
                title       |-> tl.title,
                link        |-> AbsLink(tl.link),
                rating      |-> rating,
                reviewCount |-> reviews,
                price       |-> price,
                seller      |-> seller,
                sellerLevel |-> LevelLoop(c.levelEls, 1),
                thumbnail   |-> thumbnail,
                tags        |-> generateTags(tl.title, keyword)] >>

\* the body of gigElements.forEach for one container (index counts from 0):
\* the records it appends to extractedGigs, none after a rejection (return)
\* or an exception (caught and logged)
ProcessElement(c, index, keyword, ent) ==
    LET tl        == ResolveTitleLink(c)
        rating    == RatingLoop(c.ratingEls, 1)
        reviews   == ReviewLoop(c.reviewEls, 1)
        price     == PriceLoop(c.priceEls, 1)
        seller    == SellerLoop(c.sellerEls, 1)
        thumbnail == ThumbLoop(c.imgEls, 1)
    IN IF c.throws THEN <<>>
       ELSE IF ~tl.ok THEN <<>>
       ELSE IF rating = 0 THEN <<>>
       ELSE IF reviews = 0 THEN <<>>
       ELSE IF Len(price) = 0 THEN <<>>
       ELSE IF Len(seller) = 0 THEN <<>>
       ELSE IF Len(thumbnail) = 0 THEN <<>>
       ELSE << [id          |-> GigId(c, index, ent),
                title       |-> tl.title,
                link        |-> AbsLink(tl.link),
                rating      |-> rating,
                reviewCount |-> reviews,
                price       |-> price,
                seller      |-> seller,
                sellerLevel |-> LevelLoop(c.levelEls, 1),
                thumbnail   |-> thumbnail,
                tags        |-> generateTags(tl.title, keyword)] >>

\* variant of the container loop in which a container that yields no record
\* ends the loop (a break in place of the callback's return)
RECURSIVE ForEachGigStop(_, _, _, _)
ForEachGigStop(els, i, keyword, ent) ==
    IF i > Len(els) THEN <<>>
    ELSE LET c   == els[i]
             tl  == ResolveTitleLink(c)
             ok  == /\ ~c.throws /\ tl.ok
                    /\ RatingLoop(c.ratingEls, 1) # 0 /\ ReviewLoop(c.reviewEls, 1) # 0
                    /\ Len(PriceLoop(c.priceEls, 1)) > 0 /\ Len(SellerLoop(c.sellerEls, 1)) > 0
                    /\ Len(ThumbLoop(c.imgEls, 1)) > 0
         IN IF ~ok THEN <<>>
            ELSE <<[from |-> i,
                    gig  |-> [id          |-> GigId(c, i - 1, ent),
                              title       |-> tl.title,
                              link        |-> AbsLink(tl.link),
                              rating      |-> RatingLoop(c.ratingEls, 1),
                              reviewCount |-> ReviewLoop(c.reviewEls, 1),
                              price       |-> PriceLoop(c.priceEls, 1),
                              seller      |-> SellerLoop(c.sellerEls, 1),
                              sellerLevel |-> LevelLoop(c.levelEls, 1),
                              thumbnail   |-> ThumbLoop(c.imgEls, 1),
                              tags        |-> generateTags(tl.title, keyword)]]>>
                 \o ForEachGigStop(els, i + 1, keyword, ent)

\* gigElements.forEach: every container is processed, in DOM order; the
\* result pairs each record with the (1-based) position of its container
RECURSIVE ForEachGig(_, _, _, _)
ForEachGig(els, i, keyword, ent) ==
    IF i > Len(els) THEN <<>>
    ELSE LET out == ProcessElement(els[i], i - 1, keyword, ent) IN
         (IF Len(out) = 0 THEN <<>> ELSE <<[from |-> i, gig |-> out[1]]>>)
            \o ForEachGig(els, i + 1, keyword, ent)

possibleSelectors == <<"[data-gig-id]", ".gig-card-layout", ".gig-wrapper", ".gig-card",
                       "[data-impression-collected]", ".basic-gig-card",
                       ".gig-card-footer-wrapper", "[data-testid=gig-card]",
                       ".gig-card-container", ".gig-card-item", "[data-cy=gig-card]">>

\* the selectors of the default list the extraction uses when no working
\* selector was found
defaultSelectors == {"[data-gig-id]", ".gig-card-layout", ".gig-wrapper", ".gig-card"}

\* the selector cascade of the handler: the index of the first selector
\* that matches an element of the page, 0 when none does (workingSelector
\* stays '')
WorkingSelector(pg) ==
    IF \E i \in 1..Len(possibleSelectors) :
          \E k \in 1..Len(pg.containers) : possibleSelectors[i] \in pg.containers[k].sels
    THEN CHOOSE i \in 1..Len(possibleSelectors) :
            /\ \E k \in 1..Len(pg.containers) : possibleSelectors[i] \in pg.containers[k].sels
            /\ \A j \in 1..(i - 1) :
                  \A k \in 1..Len(pg.containers) : possibleSelectors[j] \notin pg.containers[k].sels
    ELSE 0

\* document.querySelectorAll(selector || default list), in DOM order
GigElements(pg) ==
    LET w == WorkingSelector(pg)
        Match(c) == IF w > 0 THEN possibleSelectors[w] \in c.sels
                    ELSE c.sels \cap defaultSelectors # {}
    IN SelectSeq(pg.containers, Match)

\* the elements the forEach of the extraction visits: the NodeList
\* gigElements; the gig anchors (allLinks) are counted and logged only
ForEachTargets(pg) == GigElements(pg)

\* the page.evaluate extraction: an empty result when neither containers
\* nor gig links exist, else the loop over the containers
ExtractPage(pg, keyword, ent) ==
    LET els == GigElements(pg) IN
    IF Len(els) = 0 /\ Len(pg.anchors) = 0 THEN <<>>
    ELSE ForEachGig(els, 1, keyword, ent)

(***************************************************************************)
(* Block detection (routes.ts, the blocking check of the handler)          *)
(***************************************************************************)
blockingKeywords == << <<"b","l","o","c","k","e","d">>,
                       <<"a","c","c","e","s","s"," ","d","e","n","i","e","d">>,
                       <<"f","o","r","b","i","d","d","e","n">>,
                       <<"c","a","p","t","c","h","a">>,
                       <<"s","e","c","u","r","i","t","y"," ","c","h","e","c","k">>,
                       <<"b","o","t"," ","d","e","t","e","c","t","e","d">> >>

\* variant of the blocking check that compares the text as it is, without
\* toLowerCase
isBlockedCaseSensitive(innerText) ==
    \E k \in 1..Len(blockingKeywords) : Includes(innerText, blockingKeywords[k])

\* bodyText = innerText.toLowerCase(); blockingKeywords.some(includes)
isBlocked(innerText) ==
    LET bodyText == ToLower(innerText) IN
    \E k \in 1..Len(blockingKeywords) : Includes(bodyText, blockingKeywords[k])

(***************************************************************************)
(* The next-page affordance: the probe and the enqueue selector            *)
(***************************************************************************)
\* the five next-page selectors without their :not(...) suffixes; an
\* element of a page lists in `sels` the ones it matches
nextBase == <<".pagination-next", "[aria-label=Next]", ".next-page",
              ".pagination .next", "a[aria-label=Go to next page]">>

\* the i-th entry of nextSelectors: base:not([disabled]):not(.disabled)
NextSelectorMatches(e, i) ==
    nextBase[i] \in e.sels /\ ~e.disabledAttr /\ ~e.disabledClass

\* document.querySelector(nextSelectors[i]): position of the first match
\* in DOM order, 0 for null
QueryNext(nexts, i) ==
    IF \E k \in 1..Len(nexts) : NextSelectorMatches(nexts[k], i)
    THEN CHOOSE k \in 1..Len(nexts) :
            /\ NextSelectorMatches(nexts[k], i)
            /\ \A j \in 1..(k - 1) : ~NextSelectorMatches(nexts[j], i)
    ELSE 0

\* the probe: true at the first selector whose first match is neither
\* disabled by attribute nor by class
nextPageExists(nexts) ==
    \E i \in 1..Len(nextBase) :
        LET k == QueryNext(nexts, i) IN
        k > 0 /\ ~nexts[k].disabledAttr /\ ~nexts[k].disabledClass

\* the selector of the earlier routes variant: the base selectors without
\* the :not([disabled]):not(.disabled) restriction
EnqueueSelectorUnrestricted(e) ==
    \E i \in 1..Len(nextBase) : nextBase[i] \in e.sels

\* the selector handed to enqueueLinks: the same five selectors, joined
EnqueueSelectorMatches(e) ==
    \E i \in 1..Len(nextBase) :
        nextBase[i] \in e.sels /\ ~e.disabledAttr /\ ~e.disabledClass

\* positions of the elements enqueueLinks selects, in DOM order
EnqueueSelected(nexts) == {k \in 1..Len(nexts) : EnqueueSelectorMatches(nexts[k])}

\* the URLs enqueueLinks takes from the selected elements (href 0: the
\* element has no href and yields nothing), in DOM order, each once
RECURSIVE LinkTargets(_, _)
LinkTargets(nexts, k) ==
    IF k > Len(nexts) THEN <<>>
    ELSE (IF k \in EnqueueSelected(nexts) /\ nexts[k].href # 0
          THEN <<nexts[k].href>> ELSE <<>>) \o LinkTargets(nexts, k + 1)

\* the requests enqueueLinks adds: the targets the queue does not know yet
enqueueLinks(nexts, known) ==
    LET Fresh(u) == u \notin known IN
    Distinct(SelectSeq(LinkTargets(nexts, 1), Fresh), <<>>)

(***************************************************************************)
(* Inputs: the DOM fragments the extraction and the probe read             *)
(***************************************************************************)
\* number of cards of a page of the card-rich sites
MaxCards == 2

\* a title element: its text and its href (<<>> without href)
TitleEl(text, href) == [present |-> TRUE, text |-> text, href |-> href]
\* a rating element: text, aria-label, data-rating
RatingEl(text, aria, dataRating) ==
    [present |-> TRUE, text |-> text, aria |-> aria, dataRating |-> dataRating]
\* an element read through its text only
TextEl(text) == [present |-> TRUE, text |-> text]
\* an image element: src, data-src, data-lazy-src, background-image URL
ImgEl(src, dataSrc, lazySrc, bgUrl) ==
    [present |-> TRUE, src |-> src, dataSrc |-> dataSrc, lazySrc |-> lazySrc,
     bgUrl |-> bgUrl]
\* the strategy list in which only the i-th selector finds an element
At(i, e) == [k \in 1..i |-> IF k = i THEN e ELSE NoElem]

\* a card every field of which resolves at its first strategy
CardPlain ==
    [sels       |-> {"[data-gig-id]", ".gig-card"},
     dataGigId  |-> <<"g","1">>,
     dataGig    |-> <<>>,
     dataTitle  |-> <<>>,
     titleEls   |-> <<TitleEl(<<" "," ","L","o","g","o"," "," "," ","d","e","s","i","g","n"," ">>, <<"/","g","i","g","s","/","l","o","g","o">>)>>,
     ratingEls  |-> <<RatingEl(<<"4",".","7"," ","o","u","t"," ","o","f"," ","5">>, <<>>, <<>>)>>,
     reviewEls  |-> <<TextEl(<<"(","1","2","0",")">>)>>,
     priceEls   |-> <<TextEl(<<"$","4","5">>)>>,
     sellerEls  |-> <<TextEl(<<"a","n","n","a">>)>>,
     levelEls   |-> <<>>,
     imgEls     |-> <<ImgEl(<<"/","/","c","d","n",".","i","o","/","a",".","p","n","g">>, <<>>, <<>>, <<>>)>>,
     throws     |-> FALSE]

\* a card whose fields resolve at later strategies: title from the data
\* attribute, link from the gig anchor, rating from an aria-label, no id
CardAttr ==
    [sels       |-> {".gig-card"},
     dataGigId  |-> <<>>,
     dataGig    |-> <<>>,
     dataTitle  |-> <<"S","E","O"," ","&","#","3","9",";","p","r","o","&","#","3","9",";"," ","a","u","d","i","t">>,
     titleEls   |-> At(GigLinkSelector, TitleEl(<<"g","o">>, <<"h","t","t","p","s",":","/","/","w","w","w",".","f","i","v","e","r","r",".","c","o","m","/","g","i","g","s","/","s","e","o">>)),
     ratingEls  |-> <<RatingEl(<<"n","/","a">>, <<"4",".","2"," ","s","t","a","r","s">>, <<>>)>>
                    \o At(6, RatingEl(<<>>, <<"R","a","t","e","d"," ","4",".","9","6"," ","s","t","a","r","s">>, <<>>)),
     reviewEls  |-> <<TextEl(<<"n","o","n","e">>), TextEl(<<"1",",","2","3","4"," ","r","e","v","i","e","w","s">>)>>,
     priceEls   |-> <<TextEl(<<"F","r","e","e">>), TextEl(<<"F","r","o","m"," ","€","5">>)>>,
     sellerEls  |-> <<TextEl(<<"x">>), TextEl(<<"b","o","b"," "," ","s","m","i","t","h">>)>>,
     levelEls   |-> <<TextEl(<<"N","e","w">>), TextEl(<<"T","o","p"," ","R","a","t","e","d">>)>>,
     imgEls     |-> <<ImgEl(<<"/","r","e","l",".","p","n","g">>, <<>>, <<>>, <<>>),
                      ImgEl(<<>>, <<"h","t","t","p",":","/","/","i",".","i","o","/","b",".","j","p","g">>, <<>>, <<>>)>>,
     throws     |-> FALSE]

\* cards that fail one acceptance rule each
CardNoRating   == [CardPlain EXCEPT !.dataGigId = <<"g","2">>,
                       !.ratingEls = <<RatingEl(<<"0"," ","s","t","a","r","s">>, <<>>, <<>>)>>]
CardBigReviews == [CardPlain EXCEPT !.dataGigId = <<"g","3">>,
                       !.reviewEls = <<TextEl(<<"5","0","0","0","0">>)>>]
CardZeroPrice  == [CardPlain EXCEPT !.dataGigId = <<"g","4">>,
                       !.priceEls = <<TextEl(<<"$","0">>), TextEl(<<"4","5"," ","U","S","D">>)>>]
CardRelImg     == [CardPlain EXCEPT !.dataGigId = <<"g","5">>,
                       !.imgEls = <<ImgEl(<<"/","i","m","g","/","x",".","p","n","g">>, <<>>, <<>>, <<>>)>>]
CardNoLink     == [CardPlain EXCEPT !.dataGigId = <<"g","6">>,
                       !.titleEls = <<TitleEl(<<"L","o","g","o"," ","d","e","s","i","g","n">>, <<>>)>>]
CardNoSeller   == [CardPlain EXCEPT !.dataGigId = <<"g","7">>,
                       !.sellerEls = <<TextEl(<<" ","a"," ">>)>>]
\* a card whose processing raises an exception inside the forEach body
CardThrows     == [CardPlain EXCEPT !.dataGigId = <<"g","8">>, !.throws = TRUE]
\* a card whose only title text has exactly five characters
CardShortTitle == [CardPlain EXCEPT !.dataGigId = <<"g","9">>,
                       !.titleEls = <<TitleEl(<<"L","o","g","o","s">>, <<"/","g","i","g","s","/","l","o","g","o","s">>)>>]

\* the cards by name
Card(name) ==
    CASE name = "plain"      -> CardPlain
      [] name = "attr"       -> CardAttr
      [] name = "norating"   -> CardNoRating
      [] name = "bigreviews" -> CardBigReviews
      [] name = "zeroprice"  -> CardZeroPrice
      [] name = "relimg"     -> CardRelImg
      [] name = "nolink"     -> CardNoLink
      [] name = "noseller"   -> CardNoSeller
      [] name = "throws"     -> CardThrows
      [] name = "shorttitle" -> CardShortTitle

CardNames == {"plain", "attr", "norating", "bigreviews", "zeroprice", "relimg",
              "nolink", "noseller", "throws", "shorttitle"}

\* the cards that pages of several cards are built from
MixNames == {"plain", "attr", "norating", "throws", "shorttitle"}

\* all sequences of at most n names
RECURSIVE NameSeqs(_, _)
NameSeqs(names, n) ==
    IF n = 0 THEN {<<>>}
    ELSE LET shorter == NameSeqs(names, n - 1) IN
         shorter \cup {Append(cs, c) : cs \in {x \in shorter : Len(x) = n - 1}, c \in names}

\* a next-page element: the base selectors it matches, its disabled
\* attribute and class, and the URL its href leads to (0: no href)
NextEl(sels, attr, cls, href) ==
    [sels |-> sels, disabledAttr |-> attr, disabledClass |-> cls, href |-> href]

\* the URLs of the site; the run starts at URL 1
NumUrls == MaxPages + 1
Urls == 1..NumUrls

\* the pagination of a result page u that links to the following page
PlainNext(u) ==
    IF u < NumUrls THEN <<NextEl({".pagination-next"}, FALSE, FALSE, u + 1)>> ELSE <<>>

\* the other shapes the pagination of result page u may have; t is the URL
\* of the following result page (u itself on the last one)
NextVariants(u) ==
    LET t  == IF u < NumUrls THEN u + 1 ELSE u
        t2 == IF u + 2 <= NumUrls THEN u + 2 ELSE 1
    IN << <<>>,
          <<NextEl({".pagination-next"}, TRUE, FALSE, t),
            NextEl({".next-page"}, FALSE, TRUE, t)>>,
          <<NextEl({"[aria-label=Next]"}, FALSE, FALSE, 0)>>,
          <<NextEl({".pagination-next"}, FALSE, FALSE, t),
            NextEl({"[aria-label=Next]"}, FALSE, FALSE, t2)>>,
          <<NextEl({".next-page"}, FALSE, FALSE, u)>>,
          <<NextEl({".pagination-next"}, FALSE, TRUE, t2),
            NextEl({".pagination-next", ".next-page"}, FALSE, FALSE, t)>> >>

\* a loose gig anchor outside every card
LooseAnchor == TitleEl(<<"L","o","g","o"," ","d","e","s","i","g","n">>, <<"/","g","i","g","s","/","l","o","g","o">>)

\* pages that try one field: a plain card in which the named field is
\* replaced by one of the shapes below
RatingShapes ==
    << <<RatingEl(<<"4",".","7"," ","o","u","t"," ","o","f"," ","5">>, <<>>, <<>>)>>,
       <<RatingEl(<<"0"," ","s","t","a","r","s">>, <<>>, <<>>)>>,
       <<RatingEl(<<"s","t","a","r","s">>, <<>>, <<>>)>>,
       <<RatingEl(<<"5">>, <<>>, <<>>)>>,
       <<RatingEl(<<"1">>, <<>>, <<>>)>>,
       <<RatingEl(<<"5",".","0","1">>, <<>>, <<>>)>>,
       <<RatingEl(<<"0",".","9">>, <<>>, <<>>)>>,
       <<RatingEl(<<"4",".","9","6">>, <<>>, <<>>)>>,
       <<RatingEl(<<"4",".","9","4">>, <<>>, <<>>)>>,
       <<RatingEl(<<"R","a","t","e","d"," ","3"," ","o","f"," ","5">>, <<>>, <<>>)>>,
       <<RatingEl(<<"1","0">>, <<>>, <<>>)>>,
       <<RatingEl(<<"0"," ","s","t","a","r","s">>, <<>>, <<>>), RatingEl(<<"4",".","2">>, <<>>, <<>>)>> >>

ReviewShapes ==
    << <<TextEl(<<"(","1","2","0",")">>)>>,
       <<TextEl(<<"0">>)>>,
       <<TextEl(<<"1">>)>>,
       <<TextEl(<<"4","9","9","9","9">>)>>,
       <<TextEl(<<"5","0","0","0","0">>)>>,
       <<TextEl(<<"5","0","0","0","1">>)>>,
       <<TextEl(<<"(","1",",","2","3","4",")">>)>>,
       <<TextEl(<<"1","2"," ","r","e","v","i","e","w","s">>)>>,
       <<TextEl(<<"r","e","v","i","e","w","s">>)>> >>

PriceShapes ==
    << <<TextEl(<<"$","4","5">>)>>,
       <<TextEl(<<"F","r","o","m"," ","$","4","5">>)>>,
       <<TextEl(<<"$","0">>)>>,
       <<TextEl(<<"4","5">>)>>,
       <<TextEl(<<"$","9","9","9","9">>)>>,
       <<TextEl(<<"$","1","0","0","0","0">>)>>,
       <<TextEl(<<"€","2","0">>)>>,
       <<TextEl(<<"$"," ","4","5">>)>>,
       <<TextEl(<<"S","t","a","r","t","i","n","g"," ","F","r","o","m"," ","$","4","5">>)>>,
       <<TextEl(<<"f","r","o","m"," ","£","7">>)>> >>

TitleShapes ==
    << <<TitleEl(<<"L","o","g","o">>, <<"/","g","i","g","s","/","a">>), TitleEl(<<"L","o","g","o"," "," ","d","e","s","i","g","n"," ">>, <<"/","g","i","g","s","/","b">>)>>,
       <<TitleEl(<<"a"," "," ","b","c">>, <<"/","g","i","g","s","/","c">>)>>,
       <<TitleEl(<<"a","b">>, <<"/","g","i","g","s","/","d">>)>> >>

LinkShapes ==
    << <<TitleEl(<<"L","o","g","o"," ","d","e","s","i","g","n">>, <<"/","g","i","g","s","/","l","o","g","o">>)>>,
       <<TitleEl(<<"L","o","g","o"," ","d","e","s","i","g","n">>, <<"h","t","t","p","s",":","/","/","w","w","w",".","f","i","v","e","r","r",".","c","o","m","/","g","i","g","s","/","l","o","g","o">>)>>,
       <<TitleEl(<<"L","o","g","o"," ","d","e","s","i","g","n">>, <<"/","u","s","e","r","s","/","a","n","n","a">>)>>,
       <<TitleEl(<<"L","o","g","o"," ","d","e","s","i","g","n">>, <<"h","t","t","p",":","/","/","x",".","i","o","/","g","i","g","s","/","a">>)>> >>

\* image sources: protocol-relative, absolute, root-relative, relative,
\* data-src only, a relative source before a protocol-relative one, none,
\* a background-image style only
ThumbShapes ==
    << <<ImgEl(<<"/","/","c","d","n",".","i","o","/","a",".","p","n","g">>, <<>>, <<>>, <<>>)>>,
       <<ImgEl(<<"h","t","t","p",":","/","/","i",".","i","o","/","b",".","j","p","g">>, <<>>, <<>>, <<>>)>>,
       <<ImgEl(<<"/","i","m","g","/","x",".","p","n","g">>, <<>>, <<>>, <<>>)>>,
       <<ImgEl(<<"i","m","g","/","x",".","p","n","g">>, <<>>, <<>>, <<>>)>>,
       <<NoElem, ImgEl(<<>>, <<"/","/","c",".","i","o","/","d",".","p","n","g">>, <<>>, <<>>)>>,
       <<ImgEl(<<"/","i","m","g","/","y",".","p","n","g">>, <<>>, <<>>, <<>>), ImgEl(<<>>, <<"/","/","c",".","i","o","/","e",".","p","n","g">>, <<>>, <<>>)>>,
       <<>>,
       <<NoElem, NoElem, NoElem, ImgEl(<<>>, <<>>, <<>>, <<"h","t","t","p","s",":","/","/","i",".","i","o","/","b","g",".","p","n","g">>)>> >>

\* a text of n equal characters
Rep(c, n) == [i \in 1..n |-> c]

SellerShapes ==
    << <<TextEl(<<"a","n","n","a">>)>>,
       <<TextEl(<<"&","#","3","9",";">>)>>,
       <<TextEl(<<"x">>)>>,
       <<TextEl(Rep("a", 49))>>,
       <<TextEl(Rep("a", 50))>>,
       <<TextEl(<<"a"," ","\n"," ","b">>)>>,
       <<TextEl(<<"x">>), TextEl(<<"b","o","b">>)>>,
       <<TextEl(<<"&","#","&","#","3","9",";","3","9",";">>)>>,
       <<TextEl(<<" ","o","&","#","3","9",";","n","e","i","l"," ">>)>>,
       <<TextEl(<<"R","&","a","m","p",";","a","m","p",";","D">>)>> >>

\* keyword of the run and title text of the card, for the tags of a record
TagShapes ==
    << [keyword |-> <<"s","e","o"," ","l","o","g","o">>,
        title   |-> <<"L","o","g","o"," ","d","e","s","i","g","n">>],
       [keyword |-> <<"l","o","g","o">>,
        title   |-> <<"S","e","o","u","l"," ","t","r","a","v","e","l"," ","g","u","i","d","e">>],
       [keyword |-> <<"s","e","o"," "," ","l","o","g","o">>,
        title   |-> <<"L","o","g","o"," ","d","e","s","i","g","n">>],
       [keyword |-> <<"s","e","o"," ","s","e","o">>,
        title   |-> <<"Q","u","a","l","i","t","y"," ","S","E","O"," ","c","o","n","t","e","n","t"," ","w","r","i","t","i","n","g"," ","d","i","g","i","t","a","l"," ","m","a","r","k","e","t","i","n","g">>],
       [keyword |-> <<"L","O","G","O"," ","d","e","s","i","g","n"," ","p","r","o"," ","m","a","x"," ","u","l","t","r","a">>,
        title   |-> <<"L","o","g","o"," ","d","e","s","i","g","n">>],
       [keyword |-> <<"m","a","r","k","e","t","i","n","g">>,
        title   |-> <<"D","i","g","i","t","a","l"," ","M","a","r","k","e","t","i","n","g"," ","p","l","a","n">>],
       [keyword |-> <<"c","o","n","t","e","n","t">>,
        title   |-> <<"D","i","s","c","o","n","t","e","n","t"," ","w","r","i","t","e","r">>] >>

FieldNames == {"rating", "reviews", "price", "title", "link", "thumb", "seller", "tags"}

FieldShapes(f) ==
    CASE f = "rating"  -> RatingShapes
      [] f = "reviews" -> ReviewShapes
      [] f = "price"   -> PriceShapes
      [] f = "title"   -> TitleShapes
      [] f = "link"    -> LinkShapes
      [] f = "thumb"   -> ThumbShapes
      [] f = "seller"  -> SellerShapes
      [] f = "tags"    -> TagShapes

FieldCard(f, i) ==
    CASE f = "rating"  -> [CardPlain EXCEPT !.ratingEls = RatingShapes[i]]
      [] f = "reviews" -> [CardPlain EXCEPT !.reviewEls = ReviewShapes[i]]
      [] f = "price"   -> [CardPlain EXCEPT !.priceEls = PriceShapes[i]]
      [] f = "title"   -> [CardPlain EXCEPT !.titleEls = TitleShapes[i]]
      [] f = "link"    -> [CardPlain EXCEPT !.titleEls = LinkShapes[i]]
      [] f = "thumb"   -> [CardPlain EXCEPT !.imgEls = ThumbShapes[i]]
      [] f = "seller"  -> [CardPlain EXCEPT !.sellerEls = SellerShapes[i]]
      [] f = "tags"    -> [CardPlain EXCEPT !.titleEls =
                               <<TitleEl(TagShapes[i].title, <<"/","g","i","g","s","/","t">>)>>]

\* the sites of a run. A "nav" site shows one card on odd pages and none on
\* even ones; its pages link to the following page, except page `at`
\* (0: none) whose pagination is NextVariants(at)[shape]. A "cards" site has
\* the named cards on its first page and `anchors` loose gig anchors. A
\* "field" site has one card, FieldCard(cards[1], shape), on its first page.
Sites ==
    {[kind |-> "nav", at |-> 0, shape |-> 0, cards |-> <<>>, anchors |-> 0]}
    \cup {[kind |-> "nav", at |-> u, shape |-> v, cards |-> <<>>, anchors |-> 0] :
            u \in Urls, v \in 1..Len(NextVariants(1))}
    \cup {[kind |-> "cards", at |-> 0, shape |-> 0, cards |-> cs, anchors |-> 0] :
            cs \in NameSeqs(MixNames, MaxCards) \cup {<<n>> : n \in CardNames}}
    \cup {[kind |-> "cards", at |-> 0, shape |-> 0, cards |-> <<>>, anchors |-> 1]}
    \cup UNION {{[kind |-> "field", at |-> 0, shape |-> i, cards |-> <<f>>, anchors |-> 0] :
                    i \in 1..Len(FieldShapes(f))} : f \in FieldNames}

\* the rendered page of URL u of a site: its cards, its loose gig anchors
\* and its pagination elements
PageAt(site, u) ==
    IF site.kind = "nav"
    THEN [containers |-> IF u % 2 = 1 THEN <<CardPlain>> ELSE <<>>,
          anchors    |-> <<>>,
          nexts      |-> IF u = site.at THEN NextVariants(u)[site.shape] ELSE PlainNext(u)]
    ELSE [containers |-> IF u # 1 THEN <<>>
                         ELSE IF site.kind = "field"
                         THEN <<FieldCard(site.cards[1], site.shape)>>
                         ELSE [i \in 1..Len(site.cards) |-> Card(site.cards[i])],
          anchors    |-> IF u = 1 /\ site.anchors > 0 THEN <<LooseAnchor>> ELSE <<>>,
          nexts      |-> PlainNext(u)]

\* what document.body.innerText may read on a fetch
BodyTexts == { <<"L","o","g","o"," ","d","e","s","i","g","n"," ","g","i","g","s">>,
               <<"P","l","e","a","s","e"," ","s","o","l","v","e"," ","t","h","e"," ","C","A","P","T","C","H","A">>,
               <<"A","c","c","e","s","s"," ","D","e","n","i","e","d">>,
               <<"u","n","b","l","o","c","k","e","d"," ","g","a","m","e","s">> }

\* what Date.now() and the random suffix may be during one extraction
Entropies == { [now |-> 17, rnd |-> <<"k","3","x">>], [now |-> 18, rnd |-> <<"q","0","z">>] }

\* the keyword of the run: that of the tag shape on a site that tries the
\* tags, else "seo logo"
KeywordOf(st) ==
    IF st.kind = "field" /\ st.cards = <<"tags">> THEN TagShapes[st.shape].keyword
    ELSE <<"s","e","o"," ","l","o","g","o">>

Keywords == {KeywordOf(st) : st \in Sites}

(***************************************************************************)
(* The run: the crawler of part_003 invoking the search_results handler    *)
(***************************************************************************)
\* slots of the crawler's pool: invocations it could run side by side
NumSlots == 2
Slots == 1..NumSlots

\* variant without the maxConcurrency option: the pool runs as many
\* invocations as it has slots
poolConcurrency == NumSlots

\* maxConcurrency of the PlaywrightCrawler options
maxConcurrency == 1

VARIABLES
    inputParams,   \* INPUT_PARAMS: keyword and pages
    site,          \* the site of the run: what its URLs render
    currentPage,   \* the module-level page counter of routes.ts
    queue,         \* the request queue: URLs waiting to be handled
    known,         \* URLs ever added to the request queue (its unique keys)
    retryCount,    \* per URL, the retries the runtime has spent on it
    handled,       \* URLs whose handler returned normally
    failedReqs,    \* URLs the runtime gave up on
    sink,          \* the dataset: the records pushed so far
    pc,            \* position of the handler invocation, "idle" between two
    request,       \* URL of the request being handled, 0 when idle
    bodyText,      \* document.body.innerText of this fetch
    gigs,          \* the records page.evaluate returned
    gigFrom,       \* for each of them, the position of its container
    pushed,        \* how many of them were pushed
    error,         \* what the invocation threw: "none", "blocked", "runtime"
    checked,       \* the blocking check of this invocation has run
    markBadCalls,  \* session.markBad() calls of this invocation
    startPage,     \* currentPage when this invocation began
    startSink,     \* length of the sink when this invocation began
    enqueuedNow,   \* requests this invocation added to the queue
    probe,         \* the probe of this invocation: "none", "found", "absent"
    faults,        \* invocations that failed so far
    totalEnqueued, \* next-page requests added to the queue in this run
    processed,     \* URLs whose records were pushed at least once
    terminated,    \* an invocation decided to terminate the traversal
    loadError,     \* a load-state wait of this invocation timed out (kept until
                   \* the extraction has run)
    extractFailed, \* URLs put back for a retry after their extraction phase threw
    slotPc,        \* per slot of the crawler's pool, the position of its invocation
    slotReq,       \* per slot, the URL its invocation handles, 0 when idle
    output,        \* the OUTPUT value main writes after crawler.run() resolved
    labels         \* per URL, the label its request carries

vars == <<inputParams, site, currentPage, queue, known, retryCount, handled,
          failedReqs, sink, pc, request, bodyText, gigs, gigFrom, pushed, error,
          checked, markBadCalls, startPage, startSink, enqueuedNow, probe, faults,
          totalEnqueued, processed, terminated, loadError, extractFailed,
          slotPc, slotReq, output, labels>>

runtimeVars == <<queue, known, retryCount, handled, failedReqs>>
ghostVars == <<faults, totalEnqueued, processed, terminated, extractFailed>>
poolVars == <<slotPc, slotReq>>
localVars == <<bodyText, gigs, gigFrom, pushed, error, checked, markBadCalls,
               startPage, startSink, enqueuedNow, probe, loadError>>

\* the review bounds of the run configuration: minReviews (default 0) and
\* maxReviews, which may be left empty
MinReviewsChoices == {0, 2}
MaxReviewsChoices == {[given |-> FALSE, value |-> 0], [given |-> TRUE, value |-> 0],
                      [given |-> TRUE, value |-> 100]}

\* OUTPUT before main has written it
NoOutput == [written |-> FALSE, success |-> FALSE, gigs |-> <<>>, totalResults |-> 0]

\* variant of the review filter that tests whether maxReviews was supplied
\* (maxReviews !== undefined) in place of its truthiness
filteredGigsDefined(items, minReviews, maxReviews) ==
    LET Keep(gig) ==
            /\ ~(gig.reviewCount < minReviews)
            /\ ~(maxReviews.given /\ gig.reviewCount > maxReviews.value)
    IN SelectSeq(items, Keep)

\* the review filter of main: gigs.filter(...); `maxReviews && ...` is
\* false for a maxReviews that is undefined or 0
filteredGigs(items, minReviews, maxReviews) ==
    LET Keep(gig) ==
            /\ ~(gig.reviewCount < minReviews)
            /\ ~(maxReviews.given /\ maxReviews.value # 0 /\ gig.reviewCount > maxReviews.value)
    IN SelectSeq(items, Keep)

\* the state after construction: currentPage = 1 and the start URL queued
\* with label search_results. A site whose deviating page lies at or beyond
\* the page limit is left out: the pages before it form a plain chain, so
\* the traversal never probes that page and the site behaves as the plain
\* one
InitRun(startLabel) ==
    /\ site \in Sites
    /\ inputParams \in [keyword : Keywords, pages : 1..MaxPages,
                        minReviews : MinReviewsChoices, maxReviews : MaxReviewsChoices]
    /\ inputParams.keyword = KeywordOf(site)
    /\ \/ site.kind = "field" /\ site.cards = <<"reviews">>
       \/ inputParams.minReviews = 0 /\ ~inputParams.maxReviews.given
    /\ site.kind # "nav" => inputParams.pages = 1
    /\ site.kind = "nav" => site.at < inputParams.pages
    /\ currentPage = 1
    /\ queue = <<1>>
    /\ known = {1}
    /\ retryCount = [u \in Urls |-> 0]
    /\ handled = {}
    /\ failedReqs = {}
    /\ sink = <<>>
    /\ pc = "idle"
    /\ request = 0
    /\ bodyText = <<>>
    /\ gigs = <<>>
    /\ gigFrom = <<>>
    /\ pushed = 0
    /\ error = "none"
    /\ checked = FALSE
    /\ markBadCalls = 0
    /\ startPage = 1
    /\ startSink = 0
    /\ enqueuedNow = <<>>
    /\ probe = "none"
    /\ faults = 0
    /\ totalEnqueued = 0
    /\ processed = {}
    /\ terminated = FALSE
    /\ loadError = FALSE
    /\ extractFailed = {}
    /\ slotPc = [k \in Slots |-> "idle"]
    /\ slotReq = [k \in Slots |-> 0]
    /\ output = NoOutput
    /\ labels = [u \in Urls |-> IF u = 1 THEN startLabel ELSE "search_results"]

\* main queues the start URL with the label search_results, and enqueueLinks
\* gives the same label to every request it adds
Init == InitRun("search_results")

\* the runtime takes the next request and calls the handler, one at a time
\* (maxConcurrency 1), while fewer than maxRequestsPerCrawl were handled
StartHandler ==
    /\ pc = "idle"
    /\ queue # <<>>
    /\ labels[Head(queue)] = "search_results"
    /\ Cardinality(handled \cup failedReqs) < inputParams.pages * 10
    /\ \E b \in BodyTexts :
          /\ isBlocked(b) => faults < MaxFaults
          /\ bodyText' = b
    /\ request' = Head(queue)
    /\ queue' = Tail(queue)
    /\ pc' = "load"
    /\ gigs' = <<>>
    /\ gigFrom' = <<>>
    /\ pushed' = 0
    /\ error' = "none"
    /\ checked' = FALSE
    /\ markBadCalls' = 0
    /\ startPage' = currentPage
    /\ startSink' = Len(sink)
    /\ enqueuedNow' = <<>>
    /\ probe' = "none"
    /\ UNCHANGED <<inputParams, site, currentPage, known, retryCount, handled,
                   failedReqs, sink, faults, totalEnqueued, processed, terminated>>
    /\ loadError' = FALSE
    /\ extractFailed' = extractFailed \ {Head(queue)}
    /\ UNCHANGED poolVars
    /\ UNCHANGED <<output, labels>>

\* variant of the load wait without the try/catch (the earlier routes
\* variant awaits waitForLoadState unguarded): a timeout ends the invocation
LoadWaitUnguarded ==
    /\ pc = "load"
    /\ \E timedOut \in BOOLEAN :
          /\ loadError' = timedOut
          /\ pc' = IF timedOut THEN "failed" ELSE "check"
          /\ error' = IF timedOut THEN "runtime" ELSE error
    /\ UNCHANGED <<inputParams, site, currentPage, sink, request>>
    /\ UNCHANGED <<runtimeVars, ghostVars, poolVars>>
    /\ UNCHANGED <<output, labels>>
    /\ UNCHANGED <<bodyText, gigs, gigFrom, pushed, checked, markBadCalls,
                   startPage, startSink, enqueuedNow, probe>>

\* variant of the load waits in which a wait never resolves and never
\* times out
LoadWaitNeverEnds ==
    /\ pc = "load"
    /\ UNCHANGED vars

\* the waits for the load states and the settle delay: a timeout of a
\* load-state wait is caught and logged, and the handler goes on
LoadWait ==
    /\ pc = "load"
    /\ \E timedOut \in BOOLEAN : loadError' = timedOut
    /\ pc' = "check"
    /\ UNCHANGED <<inputParams, site, currentPage, sink, request>>
    /\ UNCHANGED <<runtimeVars, ghostVars, poolVars>>
    /\ UNCHANGED <<output, labels>>
    /\ UNCHANGED <<bodyText, gigs, gigFrom, pushed, error, checked, markBadCalls,
                   startPage, startSink, enqueuedNow, probe>>

\* variant of the blocking check that marks the session bad but does not
\* throw: the handler goes on to the extraction
BlockCheckNoThrow ==
    /\ pc = "check"
    /\ checked' = TRUE
    /\ markBadCalls' = IF isBlocked(bodyText) THEN markBadCalls + 1 ELSE markBadCalls
    /\ pc' = "extract"
    /\ UNCHANGED <<inputParams, site, currentPage, sink, request, runtimeVars,
                   bodyText, gigs, gigFrom, pushed, startPage, startSink,
                   enqueuedNow, probe, totalEnqueued, processed, terminated,
                   error, faults>>
    /\ UNCHANGED <<loadError, extractFailed>>
    /\ UNCHANGED poolVars
    /\ UNCHANGED <<output, labels>>

\* the blocking check: markBad and throw when an indicator is in the text
BlockCheck ==
    /\ pc = "check"
    /\ checked' = TRUE
    /\ IF isBlocked(bodyText)
       THEN /\ markBadCalls' = markBadCalls + 1
            /\ error' = "blocked"
            /\ pc' = "failed"
            /\ faults' = faults + 1
       ELSE /\ pc' = "extract"
            /\ UNCHANGED <<markBadCalls, error, faults>>
    /\ UNCHANGED <<inputParams, site, currentPage, sink, request, runtimeVars,
                   bodyText, gigs, gigFrom, pushed, startPage, startSink,
                   enqueuedNow, probe, totalEnqueued, processed, terminated>>
    /\ loadError' = (loadError /\ ~isBlocked(bodyText))
    /\ UNCHANGED extractFailed
    /\ UNCHANGED poolVars
    /\ UNCHANGED <<output, labels>>

\* the selector cascade and the page.evaluate extraction; what the load
\* wait logged plays no part after it
Extract ==
    /\ pc = "extract"
    /\ inputParams.keyword = KeywordOf(site)
    /\ \E ent \in Entropies :
          LET out == ExtractPage(PageAt(site, request), inputParams.keyword, ent) IN
          /\ gigs' = [i \in 1..Len(out) |-> out[i].gig]
          /\ gigFrom' = [i \in 1..Len(out) |-> out[i].from]
    /\ pc' = "push"
    /\ UNCHANGED <<inputParams, site, currentPage, sink, request, runtimeVars,
                   ghostVars, bodyText, pushed, error, checked, markBadCalls,
                   startPage, startSink, enqueuedNow, probe>>
    /\ loadError' = FALSE
    /\ UNCHANGED poolVars
    /\ UNCHANGED <<output, labels>>

\* one iteration of the loop that pushes the records to the dataset
PushData ==
    /\ pc = "push"
    /\ pushed < Len(gigs)
    /\ sink' = Append(sink, gigs[pushed + 1])
    /\ pushed' = pushed + 1
    /\ UNCHANGED <<inputParams, site, currentPage, pc, request, runtimeVars,
                   ghostVars, bodyText, gigs, gigFrom, error, checked, markBadCalls,
                   startPage, startSink, enqueuedNow, probe>>
    /\ UNCHANGED loadError
    /\ UNCHANGED poolVars
    /\ UNCHANGED <<output, labels>>

\* variant of the continuation decision that compares with <= in place
\* of <
DecideOffByOne ==
    /\ pc = "push"
    /\ pushed = Len(gigs)
    /\ processed' = processed \cup {request}
    /\ IF currentPage <= inputParams.pages
       THEN pc' = "probe" /\ UNCHANGED terminated
       ELSE pc' = "done" /\ terminated' = TRUE
    /\ UNCHANGED <<inputParams, site, currentPage, sink, request, runtimeVars,
                   localVars, faults, totalEnqueued>>
    /\ UNCHANGED extractFailed
    /\ UNCHANGED poolVars
    /\ UNCHANGED <<output, labels>>

\* variant of the continuation decision that probes whatever the page limit
DecideAlwaysProbe ==
    /\ pc = "push"
    /\ pushed = Len(gigs)
    /\ processed' = processed \cup {request}
    /\ pc' = "probe"
    /\ UNCHANGED <<inputParams, site, currentPage, sink, request, runtimeVars,
                   localVars, faults, totalEnqueued, terminated>>
    /\ UNCHANGED extractFailed
    /\ UNCHANGED poolVars
    /\ UNCHANGED <<output, labels>>

\* variant of the continuation decision that does not wait for the pushes
\* (pushData not awaited)
DecideBeforePushDone ==
    /\ pc = "push"
    /\ processed' = processed \cup {request}
    /\ IF currentPage < inputParams.pages
       THEN pc' = "probe" /\ UNCHANGED terminated
       ELSE pc' = "done" /\ terminated' = TRUE
    /\ UNCHANGED <<inputParams, site, currentPage, sink, request, runtimeVars,
                   localVars, faults, totalEnqueued>>
    /\ UNCHANGED extractFailed
    /\ UNCHANGED poolVars
    /\ UNCHANGED <<output, labels>>

\* the continuation decision: probe only below the page limit
Decide ==
    /\ pc = "push"
    /\ pushed = Len(gigs)
    /\ processed' = processed \cup {request}
    /\ IF currentPage < inputParams.pages
       THEN pc' = "probe" /\ UNCHANGED terminated
       ELSE pc' = "done" /\ terminated' = TRUE
    /\ UNCHANGED <<inputParams, site, currentPage, sink, request, runtimeVars,
                   localVars, faults, totalEnqueued>>
    /\ UNCHANGED extractFailed
    /\ UNCHANGED poolVars
    /\ UNCHANGED <<output, labels>>

\* the next-page probe; currentPage++ follows a positive result at once
Probe ==
    /\ pc = "probe"
    /\ IF nextPageExists(PageAt(site, request).nexts)
       THEN /\ probe' = "found"
            /\ currentPage' = currentPage + 1
            /\ pc' = "delay"
            /\ UNCHANGED terminated
       ELSE /\ probe' = "absent"
            /\ pc' = "done"
            /\ terminated' = TRUE
            /\ UNCHANGED currentPage
    /\ UNCHANGED <<inputParams, site, sink, request, runtimeVars, bodyText, gigs,
                   gigFrom, pushed, error, checked, markBadCalls, startPage,
                   startSink, enqueuedNow, faults, totalEnqueued, processed>>
    /\ UNCHANGED <<loadError, extractFailed>>
    /\ UNCHANGED poolVars
    /\ UNCHANGED <<output, labels>>

\* the randomized pacing delay before the navigation
PacingDelay ==
    /\ pc = "delay"
    /\ pc' = "enqueue"
    /\ UNCHANGED <<inputParams, site, currentPage, sink, request>>
    /\ UNCHANGED <<runtimeVars, ghostVars, localVars>>
    /\ UNCHANGED poolVars
    /\ UNCHANGED <<output, labels>>

\* enqueueLinks with the next-page selector list and label search_results
Enqueue ==
    /\ pc = "enqueue"
    /\ LET new == enqueueLinks(PageAt(site, request).nexts, known) IN
       /\ queue' = queue \o new
       /\ known' = known \cup {new[i] : i \in 1..Len(new)}
       /\ enqueuedNow' = new
       /\ totalEnqueued' = totalEnqueued + Len(new)
    /\ pc' = "done"
    /\ UNCHANGED <<inputParams, site, currentPage, sink, request, retryCount, handled,
                   failedReqs, bodyText, gigs, gigFrom, pushed, error, checked,
                   markBadCalls, startPage, startSink, probe, faults, processed,
                   terminated>>
    /\ UNCHANGED <<loadError, extractFailed>>
    /\ UNCHANGED poolVars
    /\ UNCHANGED <<output, labels>>

\* an awaited call of the handler rejects (page closed, evaluate fails,
\* pushData fails): the catch block logs and rethrows
Throw ==
    /\ pc \in {"extract", "push", "probe", "delay", "enqueue"}
    /\ pc = "push" => pushed < Len(gigs)
    /\ faults < MaxFaults
    /\ error' = "runtime"
    /\ pc' = "failed"
    /\ faults' = faults + 1
    /\ UNCHANGED <<inputParams, site, currentPage, sink, request, runtimeVars,
                   bodyText, gigs, gigFrom, pushed, checked, markBadCalls,
                   startPage, startSink, enqueuedNow, probe, totalEnqueued,
                   processed, terminated>>
    /\ extractFailed' = IF pc = "extract" THEN extractFailed \cup {request} ELSE extractFailed
    /\ loadError' = FALSE
    /\ UNCHANGED poolVars
    /\ UNCHANGED <<output, labels>>

\* the locals of an invocation are gone once the runtime has taken its
\* outcome
LocalsGone ==
    /\ bodyText' = <<>>
    /\ gigs' = <<>>
    /\ gigFrom' = <<>>
    /\ pushed' = 0
    /\ error' = "none"
    /\ checked' = FALSE
    /\ markBadCalls' = 0
    /\ startPage' = currentPage
    /\ startSink' = Len(sink)
    /\ enqueuedNow' = <<>>
    /\ probe' = "none"
    /\ loadError' = FALSE

\* the handler returned: the runtime marks the request handled
Finish ==
    /\ pc = "done"
    /\ handled' = handled \cup {request}
    /\ pc' = "idle"
    /\ request' = 0
    /\ LocalsGone
    /\ UNCHANGED <<inputParams, site, currentPage, sink, queue, known, retryCount,
                   failedReqs, ghostVars>>
    /\ UNCHANGED poolVars
    /\ UNCHANGED <<output, labels>>

\* the handler threw: the runtime puts the request back while it has
\* retries left
Retry ==
    /\ pc = "failed"
    /\ retryCount[request] < MaxRetries
    /\ retryCount' = [retryCount EXCEPT ![request] = @ + 1]
    /\ queue' = Append(queue, request)
    /\ pc' = "idle"
    /\ request' = 0
    /\ LocalsGone
    /\ UNCHANGED <<inputParams, site, currentPage, sink, known, handled,
                   failedReqs, ghostVars>>
    /\ UNCHANGED poolVars
    /\ UNCHANGED <<output, labels>>

\* the handler threw and the retries are spent: the request has failed
GiveUp ==
    /\ pc = "failed"
    /\ retryCount[request] >= MaxRetries
    /\ failedReqs' = failedReqs \cup {request}
    /\ pc' = "idle"
    /\ request' = 0
    /\ LocalsGone
    /\ UNCHANGED <<inputParams, site, currentPage, sink, queue, known, retryCount,
                   handled, faults, totalEnqueued, processed, terminated>>
    /\ extractFailed' = extractFailed \ {request}
    /\ UNCHANGED poolVars
    /\ UNCHANGED <<output, labels>>

\* crawler.run() has resolved (the queue is empty or maxRequestsPerCrawl is
\* reached): main reads the dataset, filters it and writes OUTPUT
WriteOutput ==
    /\ pc = "idle"
    /\ \/ queue = <<>>
       \/ Cardinality(handled \cup failedReqs) >= inputParams.pages * 10
    /\ ~output.written
    /\ LET kept == filteredGigs(sink, inputParams.minReviews, inputParams.maxReviews) IN
       output' = [written |-> TRUE, success |-> TRUE, gigs |-> kept,
                  totalResults |-> Len(kept)]
    /\ UNCHANGED <<inputParams, site, currentPage, sink, pc, request>>
    /\ UNCHANGED <<runtimeVars, ghostVars, localVars, poolVars, labels>>

Next ==
    \/ StartHandler
    \/ LoadWait
    \/ BlockCheck
    \/ Extract
    \/ PushData
    \/ Decide
    \/ Probe
    \/ PacingDelay
    \/ Enqueue
    \/ Throw
    \/ Finish
    \/ Retry
    \/ GiveUp
    \/ WriteOutput

Spec == Init /\ [][Next]_vars

\* the runtime keeps going: crawler.run() drives the queue until it is empty,
\* and every await of the handler resolves or rejects within the handler
\* timeout. The two steps that read the page (the blocking check and the
\* page.evaluate extraction) are named by the position they leave: each
\* returns or throws whenever the handler waits on it
BlockCheckReturns == pc = "check" /\ pc' \in {"extract", "failed"}

ExtractReturns == pc = "extract" /\ pc' \in {"push", "failed"}

SpecFair ==
    /\ Spec
    /\ WF_vars(pc \notin {"check", "extract"} /\ Next)
    /\ WF_pc(BlockCheckReturns)
    /\ WF_pc(ExtractReturns)

(***************************************************************************)
(* The crawler's pool: how many invocations of the handler run side by     *)
(* side. The handler is cut at the awaits around its use of currentPage.   *)
(***************************************************************************)
\* the slots that run an invocation
ActiveSlots == {k \in Slots : slotPc[k] # "idle"}

\* what the pool leaves alone
poolFrozen == <<inputParams, site, retryCount, handled, failedReqs, sink, pc, request,
                bodyText, gigs, gigFrom, pushed, error, checked, markBadCalls,
                startPage, startSink, enqueuedNow, probe, faults, totalEnqueued,
                processed, terminated, loadError, extractFailed, output, labels>>

\* the pool starts an invocation for the next request while fewer than
\* maxConcurrency are running
PoolStart(k) ==
    /\ slotPc[k] = "idle"
    /\ queue # <<>>
    /\ Cardinality(ActiveSlots) < maxConcurrency
    /\ slotPc' = [slotPc EXCEPT ![k] = "work"]
    /\ slotReq' = [slotReq EXCEPT ![k] = Head(queue)]
    /\ queue' = Tail(queue)
    /\ UNCHANGED <<currentPage, known>>
    /\ UNCHANGED poolFrozen

\* load, block check, extraction and pushes of the invocation: awaits that
\* do not touch currentPage
PoolWork(k) ==
    /\ slotPc[k] = "work"
    /\ slotPc' = [slotPc EXCEPT ![k] = "decide"]
    /\ UNCHANGED <<currentPage, queue, known, slotReq>>
    /\ UNCHANGED poolFrozen

\* the test currentPage < inputParams.pages; the probe is awaited after it
PoolDecide(k) ==
    /\ slotPc[k] = "decide"
    /\ IF currentPage < inputParams.pages
       THEN slotPc' = [slotPc EXCEPT ![k] = "probe"] /\ UNCHANGED slotReq
       ELSE /\ slotPc' = [slotPc EXCEPT ![k] = "idle"]
            /\ slotReq' = [slotReq EXCEPT ![k] = 0]
    /\ UNCHANGED <<currentPage, queue, known>>
    /\ UNCHANGED poolFrozen

\* the probe returns and currentPage++ follows a positive result
PoolProbe(k) ==
    /\ slotPc[k] = "probe"
    /\ IF nextPageExists(PageAt(site, slotReq[k]).nexts)
       THEN /\ currentPage' = currentPage + 1
            /\ slotPc' = [slotPc EXCEPT ![k] = "enqueue"]
            /\ UNCHANGED slotReq
       ELSE /\ slotPc' = [slotPc EXCEPT ![k] = "idle"]
            /\ slotReq' = [slotReq EXCEPT ![k] = 0]
            /\ UNCHANGED currentPage
    /\ UNCHANGED <<queue, known>>
    /\ UNCHANGED poolFrozen

\* pacing delay and enqueueLinks, then the handler returns
PoolEnqueue(k) ==
    /\ slotPc[k] = "enqueue"
    /\ LET new == enqueueLinks(PageAt(site, slotReq[k]).nexts, known) IN
       /\ queue' = queue \o new
       /\ known' = known \cup {new[i] : i \in 1..Len(new)}
    /\ slotPc' = [slotPc EXCEPT ![k] = "idle"]
    /\ slotReq' = [slotReq EXCEPT ![k] = 0]
    /\ UNCHANGED currentPage
    /\ UNCHANGED poolFrozen

NextPool ==
    \/ \E k \in Slots : PoolStart(k)
    \/ \E k \in Slots : PoolWork(k)
    \/ \E k \in Slots : PoolDecide(k)
    \/ \E k \in Slots : PoolProbe(k)
    \/ \E k \in Slots : PoolEnqueue(k)

SpecPool == Init /\ [][NextPool]_vars

(***************************************************************************)
(* The default handler: a run whose start request carries a label no       *)
(* handler is registered for.                                              *)
(***************************************************************************)
InitDefault == InitRun("")

\* the router finds no handler for the label of the next request and calls
\* the default handler with the crawling context
DefaultStart ==
    /\ pc = "idle"
    /\ queue # <<>>
    /\ labels[Head(queue)] # "search_results"
    /\ Cardinality(handled \cup failedReqs) < inputParams.pages * 10
    /\ bodyText' \in BodyTexts
    /\ request' = Head(queue)
    /\ queue' = Tail(queue)
    /\ pc' = "default"
    /\ startPage' = currentPage
    /\ startSink' = Len(sink)
    /\ UNCHANGED <<gigs, gigFrom, pushed, error, checked, markBadCalls, enqueuedNow,
                   probe, loadError>>
    /\ UNCHANGED <<inputParams, site, currentPage, sink, known, retryCount, handled,
                   failedReqs, ghostVars, poolVars, output, labels>>

\* the default handler logs and awaits handler({ request }): the
\* search_results handler destructures page, log, enqueueLinks and session
\* from that object as undefined, so its first statement, log.info, raises a
\* TypeError; the catch block calls log.error, which raises again, and the
\* call rejects
DefaultHandler ==
    /\ pc = "default"
    /\ error' = "runtime"
    /\ pc' = "failed"
    /\ faults' = faults + 1
    /\ UNCHANGED <<bodyText, gigs, gigFrom, pushed, checked, markBadCalls, startPage,
                   startSink, enqueuedNow, probe, loadError>>
    /\ UNCHANGED <<inputParams, site, currentPage, sink, request, runtimeVars,
                   totalEnqueued, processed, terminated, extractFailed, poolVars,
                   output, labels>>

NextDefault ==
    \/ DefaultStart
    \/ DefaultHandler
    \/ Retry
    \/ GiveUp
    \/ WriteOutput

SpecDefault == InitDefault /\ [][NextDefault]_vars

(***************************************************************************)
(* Properties                                                              *)
(***************************************************************************)
\* the page of the request being handled
CurrentDom == PageAt(site, request)

\* the invocation is past its extraction step
Extracted == pc \in {"push", "probe", "delay", "enqueue", "done"}

\* some rating / review / price / seller / image strategy of the card
\* yields a value that passes the field's acceptance rule
HasRating(c)  == \E i \in 1..Len(ratingSelectors) : RatingOf(Elem(c.ratingEls, i)) # 0
HasReviews(c) == \E i \in 1..Len(reviewSelectors) : ReviewOf(Elem(c.reviewEls, i)) # 0
HasPrice(c)   == \E i \in 1..Len(priceSelectors) : Len(PriceOf(Elem(c.priceEls, i))) > 0
HasThumb(c)   == \E i \in 1..Len(imgSelectors) : Len(ThumbOf(Elem(c.imgEls, i))) > 0
HasSeller(c)  ==
    \E i \in 1..Len(sellerSelectors) :
        /\ Elem(c.sellerEls, i).present
        /\ Len(Trim(Elem(c.sellerEls, i).text)) > 1
        /\ Len(Trim(Elem(c.sellerEls, i).text)) < 50
\* some title source of the card (data attribute or title element) holds at
\* least five characters, and some title element carries an href
HasTitle(c) ==
    \/ Len(Trim(c.dataTitle)) >= 5
    \/ \E i \in 1..Len(titleSelectors) :
          Elem(c.titleEls, i).present /\ Len(Trim(Elem(c.titleEls, i).text)) >= 5
HasLink(c) ==
    \E i \in 1..Len(titleSelectors) :
        Elem(c.titleEls, i).present /\ Len(Elem(c.titleEls, i).href) > 0

\* no empty or zero required field in a record
Complete(g) ==
    /\ g.rating # 0
    /\ g.reviewCount # 0
    /\ Len(g.title) > 0
    /\ Len(g.link) > 0
    /\ Len(g.price) > 0
    /\ Len(g.seller) > 0
    /\ Len(g.thumbnail) > 0

\* C1: a record is emitted only for a container whose title, link, rating,
\* review count, price, seller and thumbnail all resolved to a valid value,
\* and no record returned by the extraction or pushed to the sink has a
\* zero rating or review count or an empty title, link, price, seller or
\* thumbnail.
C1_OnlyCompleteRecords ==
    /\ \A i \in 1..Len(sink) : Complete(sink[i])
    /\ \A i \in 1..Len(gigs) :
          LET c == GigElements(CurrentDom)[gigFrom[i]] IN
          /\ Complete(gigs[i])
          /\ HasTitle(c) /\ HasLink(c) /\ HasRating(c) /\ HasReviews(c)
          /\ HasPrice(c) /\ HasSeller(c) /\ HasThumb(c)

\* C1 witness: records of a page were pushed although the page also holds a
\* container that was rejected
C1_Witness ==
    /\ pc = "push"
    /\ pushed > 0
    /\ Len(gigs) < Len(GigElements(CurrentDom))
    /\ \E k \in 1..Len(GigElements(CurrentDom)) : ~HasRating(GigElements(CurrentDom)[k])

\* the title source the extraction gives priority to holds a title that
\* survives cleaning, and that source or the gig anchor carries an href
TitleConforms(c) ==
    IF Len(Trim(c.dataTitle)) > 5
    THEN /\ Len(cleanText(c.dataTitle)) >= 5
         /\ Elem(c.titleEls, GigLinkSelector).present
         /\ Len(Elem(c.titleEls, GigLinkSelector).href) > 0
    ELSE \E i \in 1..Len(titleSelectors) :
            /\ Elem(c.titleEls, i).present
            /\ Len(Trim(Elem(c.titleEls, i).text)) > 5
            /\ \A j \in 1..(i - 1) :
                  ~(Elem(c.titleEls, j).present /\ Len(Trim(Elem(c.titleEls, j).text)) > 5)
            /\ Len(cleanText(Trim(Elem(c.titleEls, i).text))) >= 5
            /\ \/ Len(Elem(c.titleEls, i).href) > 0
               \/ /\ Elem(c.titleEls, GigLinkSelector).present
                  /\ Len(Elem(c.titleEls, GigLinkSelector).href) > 0

\* a container with every required field present in its valid range, whose
\* processing does not fail
Conforming(c) ==
    /\ ~c.throws
    /\ TitleConforms(c)
    /\ HasRating(c) /\ HasReviews(c) /\ HasPrice(c) /\ HasSeller(c) /\ HasThumb(c)

EnabledNext(e) ==
    /\ e.sels \cap {nextBase[i] : i \in 1..Len(nextBase)} # {}
    /\ ~e.disabledAttr
    /\ ~e.disabledClass
HasEnabledNext(pg) == \E k \in 1..Len(pg.nexts) : EnabledNext(pg.nexts[k])

\* the run is over: no invocation in progress and nothing left to fetch
RunOver == pc = "idle" /\ queue = <<>>

\* C3: for a page limit N, when no invocation failed and each of the pages
\* before the N-th offers an enabled next-page affordance, the run that is
\* over has processed exactly N pages.
C3_ExactlyNPages ==
    ( /\ RunOver
      /\ faults = 0
      /\ \A u \in 1..(inputParams.pages - 1) : HasEnabledNext(PageAt(site, u)) )
    => Cardinality(processed) = inputParams.pages

\* C4: the number of distinct pages fetched and processed never exceeds the
\* page limit, and after a continuation decision of Terminated no further
\* page is fetched (no invocation is at work but the one that decided).
C4_PageLimit ==
    /\ Cardinality(processed) <= inputParams.pages
    /\ terminated => pc \in {"idle", "done"}

\* the indicator phrases of the blocking check
IndicatorPhrases ==
    { <<"b","l","o","c","k","e","d">>,
      <<"a","c","c","e","s","s"," ","d","e","n","i","e","d">>,
      <<"f","o","r","b","i","d","d","e","n">>,
      <<"c","a","p","t","c","h","a">>,
      <<"s","e","c","u","r","i","t","y"," ","c","h","e","c","k">>,
      <<"b","o","t"," ","d","e","t","e","c","t","e","d">> }

\* the text holds an indicator phrase at some offset, letter case ignored
HasIndicator(text) ==
    \E ph \in IndicatorPhrases :
        \E off \in 0..(Len(text) - Len(ph)) :
            \A j \in 1..Len(ph) : ToLowerChar(text[off + j]) = ph[j]

\* C5: once the blocking check of an invocation has run, a page text with
\* an indicator phrase (in any letter case) has made the invocation fail
\* with the block error and markBad was called exactly once; a text with no
\* indicator phrase raised no block error and markBad was not called.
\* Before the check nothing of this has happened.
C5_BlockDetection ==
    pc # "idle" =>
        IF checked /\ HasIndicator(bodyText)
        THEN pc = "failed" /\ error = "blocked" /\ markBadCalls = 1
        ELSE error # "blocked" /\ markBadCalls = 0

\* C5 witness: a page whose indicator phrase is not in lower case was
\* detected
C5_Witness ==
    /\ pc = "failed"
    /\ error = "blocked"
    /\ markBadCalls = 1
    /\ bodyText # ToLower(bodyText)
    /\ ~\E ph \in IndicatorPhrases : Includes(bodyText, ph)

\* C6: nothing is extracted or pushed before the blocking check has run,
\* and an invocation whose page was detected as blocked has pushed no
\* record, left currentPage as it found it, probed nothing and enqueued
\* no request.
C6_BlockedPageHasNoEffect ==
    pc # "idle" =>
        /\ ~checked => (gigs = <<>> /\ pushed = 0 /\ Len(sink) = startSink)
        /\ (markBadCalls > 0 \/ error = "blocked") =>
              /\ gigs = <<>>
              /\ pushed = 0
              /\ Len(sink) = startSink
              /\ currentPage = startPage
              /\ probe = "none"
              /\ enqueuedNow = <<>>

\* C6 witness: the blocked page holds a container that would have given a
\* record and an enabled next affordance, and the page limit was not yet
\* reached
C6_Witness ==
    /\ error = "blocked"
    /\ \E k \in 1..Len(CurrentDom.containers) : Conforming(CurrentDom.containers[k])
    /\ HasEnabledNext(CurrentDom)
    /\ currentPage < inputParams.pages

\* C7: currentPage is 1 at the start of the run, stays within 1..pages, and
\* every step leaves it unchanged or adds 1 to it.
C7_PageCounter ==
    /\ currentPage = 1
    /\ [](1 <= currentPage /\ currentPage <= inputParams.pages)
    /\ [][currentPage' = currentPage \/ currentPage' = currentPage + 1]_vars

\* C7 witness: the counter was incremented up to the page limit
C7_Witness ==
    /\ inputParams.pages = MaxPages
    /\ currentPage = inputParams.pages
    /\ totalEnqueued >= 1

\* C8: between two invocations, currentPage - 1 equals the number of
\* next-page requests enqueued so far in the run.
C8_CounterMatchesEnqueued ==
    pc = "idle" => currentPage - 1 = totalEnqueued

\* C9: an invocation probes only when currentPage was below the page limit
\* after the push, and goes on to the pacing delay only when the page has an
\* enabled next affordance; an invocation that terminated the traversal
\* (at the limit without a probe, or below it after a probe that found
\* nothing) has completed without an error, with currentPage unchanged and
\* nothing enqueued.
C9_NormalTermination ==
    /\ pc \in {"probe", "delay", "enqueue"} => startPage < inputParams.pages
    /\ probe # "none" => startPage < inputParams.pages
    /\ probe = "found" => HasEnabledNext(CurrentDom)
    /\ (pc = "done" /\ probe # "found") =>
          /\ error = "none"
          /\ currentPage = startPage
          /\ enqueuedNow = <<>>
          /\ pushed = Len(gigs)
          /\ IF startPage >= inputParams.pages
             THEN probe = "none"
             ELSE probe = "absent" /\ ~HasEnabledNext(CurrentDom)

\* C9 witness: below the page limit, a page that yielded zero records and
\* offers only disabled affordances ended the traversal normally
C9_Witness ==
    /\ pc = "done"
    /\ probe = "absent"
    /\ gigs = <<>>
    /\ CurrentDom.nexts # <<>>
    /\ error = "none"

\* positions of the elements the probe accepts: matched by one of its
\* selectors and passing its disabled tests
ProbeAccepted(nexts) ==
    {k \in 1..Len(nexts) :
        \E i \in 1..Len(nextBase) :
            NextSelectorMatches(nexts[k], i) /\ ~nexts[k].disabledAttr /\ ~nexts[k].disabledClass}

C11_LoadTimeoutNonFatal ==
    loadError =>
        /\ pc \in {"check", "extract"}
        /\ error = "none"
        /\ pc = "extract" => checked /\ ~HasIndicator(bodyText)

\* C11 witness: after a timed-out load wait the block check has run and the
\* invocation stands at the extraction of a page that holds a container
C11_Witness ==
    /\ loadError
    /\ pc = "extract"
    /\ checked
    /\ CurrentDom.containers # <<>>

\* C12: once the extraction phase of a page has thrown, the run is over for
\* that page: no invocation is started for it again (so no continuation
\* decision is taken for it).
C12_ExtractionFailureEndsRun ==
    [][~(pc = "idle" /\ pc' = "load" /\ request' \in extractFailed)]_vars

\* C13: at most one slot of the pool runs an invocation, so no slot stands
\* between the test of currentPage and its increment while another slot
\* runs, and currentPage stays within the page limit.
C13_Sequential ==
    /\ Cardinality(ActiveSlots) <= 1
    /\ \A j \in Slots, k \in Slots :
          (j # k /\ slotPc[j] = "probe") => slotPc[k] = "idle"
    /\ currentPage <= inputParams.pages

\* C13 witness: a slot stands between the test and the increment while
\* another request waits in the queue and no other slot has taken it
C13_Witness ==
    /\ queue # <<>>
    /\ \E k \in Slots :
          /\ slotPc[k] = "probe"
          /\ \A j \in Slots \ {k} : slotPc[j] = "idle"

\* C14: within an invocation nothing is extracted or pushed before the
\* block check, the records pushed so far are this page's records in
\* extraction order, the continuation decision (probe or termination) comes
\* only after every record of the page was pushed, and requests are
\* enqueued only after a probe that follows all the pushes.
C14_StepOrder ==
    pc # "idle" =>
        /\ pc = "load" => ~checked
        /\ pc \in {"extract", "push", "probe", "delay", "enqueue", "done"} => checked
        /\ (gigs # <<>> \/ pushed > 0) => checked
        /\ pushed <= Len(gigs)
        /\ Len(sink) = startSink + pushed
        /\ \A i \in 1..pushed : sink[startSink + i] = gigs[i]
        /\ pc \in {"probe", "delay", "enqueue", "done"} => pushed = Len(gigs)
        /\ probe # "none" => pushed = Len(gigs)
        /\ pc \in {"load", "check", "extract", "push", "probe"} => probe = "none"
        /\ enqueuedNow # <<>> => (probe = "found" /\ pc = "done")

\* C14 witness: a page with records had all of them pushed and then a
\* next-page request enqueued
C14_Witness ==
    /\ enqueuedNow # <<>>
    /\ Len(gigs) > 0
    /\ pushed = Len(gigs)

\* the page under extraction tries the named field on its one card
FieldPage(f) == site.kind = "field" /\ site.cards = <<f>> /\ request = 1
\* that card
FieldCardNow == FieldCard(site.cards[1], site.shape)

\* where the first digit of a text stands, and where the run of digits
\* that starts at a digit ends
HasDigit(t) == \E p \in 1..Len(t) : IsDigit(t[p])
FirstDigit(t) == CHOOSE p \in 1..Len(t) : IsDigit(t[p]) /\ \A j \in 1..(p - 1) : ~IsDigit(t[j])
RunEnd(t, p) ==
    CHOOSE q \in p..Len(t) :
        /\ \A j \in p..q : IsDigit(t[j])
        /\ q = Len(t) \/ ~IsDigit(t[q + 1])

\* the rating a source text stands for, in tenths: its first number
\* (digits, optionally a point and more digits) when that lies in [1, 5],
\* rounded to the nearest tenth; 0 when the text stands for none
RatingReading(t) ==
    IF ~HasDigit(t) THEN 0
    ELSE LET p    == FirstDigit(t)
             q    == RunEnd(t, p)
             frac == q + 2 <= Len(t) /\ t[q + 1] = "." /\ IsDigit(t[q + 2])
             r    == IF frac THEN RunEnd(t, q + 2) ELSE q
             num  == DigitsValue(SubSeq(t, p, q) \o (IF frac THEN SubSeq(t, q + 2, r) ELSE <<>>))
             den  == IF frac THEN Pow10(r - q - 1) ELSE 1
         IN IF num >= den /\ num <= 5 * den
            THEN CHOOSE x \in 10..50 :
                    2 * x * den <= 20 * num + den /\ 20 * num + den < 2 * (x + 1) * den
            ELSE 0

\* the rating the sources of a container stand for: that of the first
\* source, in strategy order, that stands for one
RatingSources(c) == {k \in 1..Len(ratingSelectors) : Elem(c.ratingEls, k).present}
RatingReadingOf(c) ==
    LET good == {k \in RatingSources(c) : RatingReading(RatingText(Elem(c.ratingEls, k))) # 0} IN
    IF good = {} THEN 0
    ELSE RatingReading(RatingText(Elem(c.ratingEls,
            CHOOSE k \in good : \A j \in good : k <= j)))

\* C15: the rating of every record (in tenths) lies in 10..50 and is the
\* rounded first number of the container's first rating source whose first
\* number lies in [1, 5]; a card whose rating sources hold no such number
\* ("0 stars", no number, 5.01, 10) gives no record, and "4.7 out of 5"
\* gives 4.7.
C15_RatingRange ==
    /\ \A i \in 1..Len(sink) : sink[i].rating \in 10..50
    /\ \A i \in 1..Len(gigs) :
          /\ gigs[i].rating \in 10..50
          /\ gigs[i].rating = RatingReadingOf(GigElements(CurrentDom)[gigFrom[i]])
    /\ (Extracted /\ FieldPage("rating")) =>
          (Len(gigs) = 1 <=> RatingReadingOf(FieldCardNow) # 0)

\* C15 witness: the card with rating text "4.7 out of 5" gave a record with
\* rating 4.7
C15_Witness ==
    /\ Extracted
    /\ FieldPage("rating")
    /\ FieldCardNow.ratingEls[1].text = <<"4",".","7"," ","o","u","t"," ","o","f"," ","5">>
    /\ Len(gigs) = 1
    /\ gigs[1].rating = 47

\* the text of the one review source of the card under test, and the
\* integer it starts its first number with
ReviewTextNow == Trim(FieldCardNow.reviewEls[1].text)
FirstInteger(t) ==
    IF ~HasDigit(t) THEN 0
    ELSE DigitsValue(SubSeq(t, FirstDigit(t), RunEnd(t, FirstDigit(t))))

\* C16: a card is emitted exactly when the parsed review count n of its
\* review text satisfies 0 < n <= 50000, and the review count of every
\* record lies in that range.
C16_ReviewRange ==
    /\ \A i \in 1..Len(gigs) : gigs[i].reviewCount > 0 /\ gigs[i].reviewCount <= 50000
    /\ (Extracted /\ FieldPage("reviews")) =>
          (Len(gigs) = 1 <=>
              (FirstInteger(ReviewTextNow) > 0 /\ FirstInteger(ReviewTextNow) <= 50000))

\* the number a text writes with thousands separators: the digits of the
\* longest run of digits and commas that starts at the first digit
WrittenNumber(t) ==
    IF ~HasDigit(t) THEN 0
    ELSE LET p == FirstDigit(t)
             q == CHOOSE q \in p..Len(t) :
                     /\ \A j \in p..q : IsDigit(t[j]) \/ t[j] = ","
                     /\ q = Len(t) \/ ~(IsDigit(t[q + 1]) \/ t[q + 1] = ",")
         IN DigitsValue(SelectSeq(SubSeq(t, p, q), IsDigit))

\* C17: a record's review count is the number its review text writes,
\* separators taken out; never a fragment of it.
C17_NoFragment ==
    (Extracted /\ FieldPage("reviews")) =>
        \A i \in 1..Len(gigs) : gigs[i].reviewCount = WrittenNumber(ReviewTextNow)

\* the text of the one price source of the card under test, and the
\* amount that follows its first currency glyph followed by a digit
PriceTextNow == Trim(FieldCardNow.priceEls[1].text)
GlyphAmount(t) ==
    LET at == {p \in 1..(Len(t) - 1) : IsGlyph(t[p]) /\ IsDigit(t[p + 1])} IN
    IF at = {} THEN 0
    ELSE LET p == CHOOSE p \in at : \A j \in at : p <= j IN
         DigitsValue(SubSeq(t, p + 1, RunEnd(t, p + 1)))

\* C18: a card is emitted exactly when its price text holds a currency
\* glyph followed by an amount n with 0 < n < 10000; the emitted price is
\* the text itself when the text starts with "From", else "From " and the
\* text.
C18_PriceRule ==
    (Extracted /\ FieldPage("price")) =>
        /\ Len(gigs) = 1 <=> (GlyphAmount(PriceTextNow) > 0 /\ GlyphAmount(PriceTextNow) < 10000)
        /\ \A i \in 1..Len(gigs) :
              gigs[i].price = IF StartsWith(PriceTextNow, <<"F","r","o","m">>)
                              THEN PriceTextNow
                              ELSE <<"F","r","o","m"," ">> \o PriceTextNow

\* the title the sources of a container stand for: the cleaned data
\* attribute when it is longer than 5 characters, else the cleaned text of
\* the first title strategy whose text is longer than 5 characters
TitleReading(c) ==
    IF Len(Trim(c.dataTitle)) > 5 THEN cleanText(c.dataTitle)
    ELSE LET good == {k \in 1..Len(titleSelectors) :
                         Elem(c.titleEls, k).present /\ Len(Trim(Elem(c.titleEls, k).text)) > 5}
         IN IF good = {} THEN <<>>
            ELSE cleanText(Trim(Elem(c.titleEls, CHOOSE k \in good : \A j \in good : k <= j).text))

\* C19: the title of every record is the cleaned value of the first
\* conforming title source of its container; a container without a
\* conforming source gives no record.
C19_TitleFromFirstConforming ==
    \A i \in 1..Len(gigs) :
        LET c == GigElements(CurrentDom)[gigFrom[i]] IN
        /\ TitleReading(c) # <<>>
        /\ gigs[i].title = TitleReading(c)

\* C20: the link of every record is absolute and leads to a listing path:
\* it starts with http and holds /gigs/, and it is an href of the container,
\* kept when it starts with http and put behind https://www.fiverr.com
\* otherwise.
C20_LinkToListing ==
    \A i \in 1..Len(gigs) :
        LET c == GigElements(CurrentDom)[gigFrom[i]]
            l == gigs[i].link
        IN /\ StartsWith(l, <<"h","t","t","p">>)
           /\ Includes(l, <<"/","g","i","g","s","/">>)
           /\ \E k \in 1..Len(titleSelectors) :
                 /\ Elem(c.titleEls, k).present
                 /\ l = IF StartsWith(Elem(c.titleEls, k).href, <<"h","t","t","p">>)
                        THEN Elem(c.titleEls, k).href
                        ELSE <<"h","t","t","p","s",":","/","/","w","w","w",".","f","i","v","e","r","r",".","c","o","m">> \o Elem(c.titleEls, k).href

\* the image URL a container offers: that of its first image source, in
\* strategy order, that carries one (<<>> when none does)
ImgSources(c) ==
    {k \in 1..Len(imgSelectors) :
        Elem(c.imgEls, k).present /\ Len(ImgUrl(Elem(c.imgEls, k))) > 0}
FirstImgUrl(c) ==
    IF ImgSources(c) = {} THEN <<>>
    ELSE ImgUrl(Elem(c.imgEls, CHOOSE k \in ImgSources(c) : \A j \in ImgSources(c) : k <= j))

\* C21: the thumbnail of every record starts with http; a card with an
\* image URL gives a record whatever the form of the URL, with the URL
\* itself when it starts with http and with https: before it when it starts
\* with //.
C21_ThumbnailAbsolute ==
    /\ \A i \in 1..Len(gigs) : StartsWith(gigs[i].thumbnail, <<"h","t","t","p">>)
    /\ (Extracted /\ FieldPage("thumb")) =>
          LET u == FirstImgUrl(FieldCardNow) IN
          /\ Len(gigs) = 1 <=> Len(u) > 0
          /\ \A i \in 1..Len(gigs) :
                /\ StartsWith(u, <<"h","t","t","p">>) => gigs[i].thumbnail = u
                /\ StartsWith(u, <<"/","/">>) => gigs[i].thumbnail = <<"h","t","t","p","s",":">> \o u

\* C22: the seller of every record, as emitted, is longer than 1 and
\* shorter than 50 characters.
C22_SellerLength ==
    /\ \A i \in 1..Len(gigs) : Len(gigs[i].seller) > 1 /\ Len(gigs[i].seller) < 50
    /\ \A i \in 1..Len(sink) : Len(sink[i].seller) > 1 /\ Len(sink[i].seller) < 50

\* the words of a text: its maximal runs of characters other than the blank
NonEmptyText(w) == Len(w) > 0
Words(t) == SelectSeq(Split(t), NonEmptyText)

\* the fixed vocabulary of topical labels
Vocabulary == << <<"S","E","O">>, <<"M","a","r","k","e","t","i","n","g">>,
                 <<"C","o","n","t","e","n","t">>, <<"W","r","i","t","i","n","g">>,
                 <<"D","i","g","i","t","a","l">>,
                 <<"P","r","o","f","e","s","s","i","o","n","a","l">>,
                 <<"Q","u","a","l","i","t","y">> >>

\* the first n distinct elements of a sequence, in order
RECURSIVE FirstDistinct(_, _, _)
FirstDistinct(xs, n, acc) ==
    IF Len(xs) = 0 \/ Len(acc) = n THEN acc
    ELSE IF \E k \in 1..Len(acc) : acc[k] = xs[1]
         THEN FirstDistinct(Tail(xs), n, acc)
         ELSE FirstDistinct(Tail(xs), n, Append(acc, xs[1]))

\* the tags a title and a keyword stand for: the keyword's words, each
\* capitalized, then the labels of the vocabulary that are a word of the
\* title (letter case ignored); the first 4 distinct ones
TagsReading(title, keyword) ==
    LET kw == Words(keyword)
        cap == [i \in 1..Len(kw) |-> <<ToUpperChar(kw[i][1])>> \o ToLower(Tail(kw[i]))]
        tw == Words(title)
        IsWordOfTitle(label) == \E k \in 1..Len(tw) : ToLower(tw[k]) = ToLower(label)
    IN FirstDistinct(cap \o SelectSeq(Vocabulary, IsWordOfTitle), 4, <<>>)

\* C23: the tags of every record hold no duplicates and at most 4 entries,
\* and are the first 4 distinct elements of the capitalized words of the
\* keyword followed by the vocabulary labels that are a word of the title.
C23_TagsFromKeywordAndTitle ==
    \A i \in 1..Len(gigs) :
        LET tags == gigs[i].tags IN
        /\ Len(tags) <= 4
        /\ \A a \in 1..Len(tags), b \in 1..Len(tags) : a # b => tags[a] # tags[b]
        /\ tags = TagsReading(gigs[i].title, inputParams.keyword)

\* C24: the id of every record is non-empty and is the container's
\* data-gig-id, else its data-gig, else a synthesized id; and no two records
\* in the sink have the same id.
C24_UniqueIds ==
    /\ \A i \in 1..Len(gigs) :
          LET c == GigElements(CurrentDom)[gigFrom[i]] IN
          /\ Len(gigs[i].id) > 0
          /\ Len(c.dataGigId) > 0 => gigs[i].id = c.dataGigId
          /\ (Len(c.dataGigId) = 0 /\ Len(c.dataGig) > 0) => gigs[i].id = c.dataGig
          /\ (Len(c.dataGigId) = 0 /\ Len(c.dataGig) = 0) =>
                StartsWith(gigs[i].id, <<"g","i","g","-">>)
    /\ \A i \in 1..Len(sink), j \in 1..Len(sink) : i # j => sink[i].id # sink[j].id

\* the price and the thumbnail read from an element that holds an emitted
\* value
PriceAgain(p) == PriceOf(TextEl(p))
ThumbAgain(u) == ThumbOf(ImgEl(u, <<>>, <<>>, <<>>))

\* every free text, href, price source and image source of a container
TextsOf(c) ==
    {c.dataTitle}
    \cup {c.titleEls[k].text : k \in {j \in 1..Len(c.titleEls) : c.titleEls[j].present}}
    \cup {c.sellerEls[k].text : k \in {j \in 1..Len(c.sellerEls) : c.sellerEls[j].present}}
    \cup {c.levelEls[k].text : k \in {j \in 1..Len(c.levelEls) : c.levelEls[j].present}}
HrefsOf(c) == {c.titleEls[k].href : k \in {j \in 1..Len(c.titleEls) : c.titleEls[j].present}}
PriceElsOf(c) == {c.priceEls[k] : k \in {j \in 1..Len(c.priceEls) : c.priceEls[j].present}}
ImgElsOf(c) == {c.imgEls[k] : k \in {j \in 1..Len(c.imgEls) : c.imgEls[j].present}}

\* C25: text cleaning, link absolutization, price prefixing and thumbnail
\* absolutization, applied to their own output, return that output: for
\* every value of the page under extraction and for every normalized field
\* of a record.
C25_NormalizationIdempotent ==
    Extracted =>
        /\ \A k \in 1..Len(CurrentDom.containers) :
              LET c == CurrentDom.containers[k] IN
              /\ \A t \in TextsOf(c) : cleanText(cleanText(t)) = cleanText(t)
              /\ \A h \in HrefsOf(c) : AbsLink(AbsLink(h)) = AbsLink(h)
              /\ \A e \in PriceElsOf(c) : PriceAgain(PriceOf(e)) = PriceOf(e)
              /\ \A e \in ImgElsOf(c) : ThumbAgain(ThumbOf(e)) = ThumbOf(e)
        /\ \A i \in 1..Len(gigs) :
              /\ cleanText(gigs[i].seller) = gigs[i].seller
              /\ cleanText(gigs[i].sellerLevel) = gigs[i].sellerLevel
              /\ AbsLink(gigs[i].link) = gigs[i].link
              /\ PriceAgain(gigs[i].price) = gigs[i].price
              /\ ThumbAgain(gigs[i].thumbnail) = gigs[i].thumbnail

\* C25 witness: a record whose seller, link, price and thumbnail all differ
\* from the values of the page they were normalized from, the seller by a
\* decoded entity
C25_Witness ==
    /\ Extracted
    /\ Len(gigs) = 1
    /\ LET c == GigElements(CurrentDom)[gigFrom[1]] IN
       /\ Includes(c.sellerEls[1].text, <<"&","#","3","9",";">>)
       /\ gigs[1].seller # Trim(c.sellerEls[1].text)
       /\ gigs[1].link # c.titleEls[1].href
       /\ gigs[1].price # Trim(c.priceEls[1].text)
       /\ gigs[1].thumbnail # c.imgEls[1].src

\* no container-level selector of the cascade matches an element of the page
NoContainerMatches(pg) ==
    \A k \in 1..Len(pg.containers) :
        pg.containers[k].sels \cap {possibleSelectors[i] : i \in 1..Len(possibleSelectors)} = {}

\* C26: when no container-level selector matches, the elements run through
\* field resolution and validation are the gig anchors of the page, one
\* candidate for each anchor.
C26_AnchorFallback ==
    (Extracted /\ NoContainerMatches(CurrentDom)) =>
        Len(ForEachTargets(CurrentDom)) = Len(CurrentDom.anchors)

\* C27: every gig of the OUTPUT of a successful run has at least minReviews
\* reviews and, when maxReviews was supplied (0 included), at most
\* maxReviews.
C27_OutputWithinReviewBounds ==
    (output.written /\ output.success) =>
        \A i \in 1..Len(output.gigs) :
            /\ output.gigs[i].reviewCount >= inputParams.minReviews
            /\ inputParams.maxReviews.given =>
                  output.gigs[i].reviewCount <= inputParams.maxReviews.value

\* C28: a request routed through the default handler is handled as a
\* search-results page: its invocation does not fail before the block check
\* has run, and the runtime does not give the request up without a block
\* check or an extraction having failed.
C28_DefaultHandledAsSearchResults ==
    /\ pc = "failed" => checked
    /\ \A u \in failedReqs : labels[u] = "search_results"

\* the number of records the pages of a set of URLs yield, each page
\* extracted once
RECURSIVE RecordsOfPages(_)
RecordsOfPages(us) ==
    IF us = {} THEN 0
    ELSE LET u == CHOOSE x \in us : TRUE IN
         Len(ExtractPage(PageAt(site, u), inputParams.keyword, CHOOSE ent \in Entropies : TRUE))
            + RecordsOfPages(us \ {u})

\* C29: every container contributes at most one record to the sink per
\* run: the sink never holds more records than the pages requested so far
\* yield when each is extracted once, and no record is pushed for a page
\* whose records were all pushed before.
C29_NoSecondPush ==
    /\ Len(sink) <= RecordsOfPages(known)
    /\ (pc = "push" /\ pushed > 0) => request \notin processed

\* C30: every run terminates: under fair scheduling the run reaches a state
\* with no request pending and no invocation active; and a step that
\* enqueues is taken only by an invocation that began below the page limit
\* and has incremented currentPage.
C30_Terminates ==
    /\ <>RunOver
    /\ [][(pc = "enqueue" /\ pc' = "done") =>
            (startPage < inputParams.pages /\ currentPage = startPage + 1)]_vars

\* C30 witness: a run over MaxPages pages that followed the next links to
\* the page limit, met a failure on the way, and is over
C30_Witness ==
    /\ RunOver
    /\ inputParams.pages = MaxPages
    /\ currentPage = MaxPages
    /\ faults > 0
    /\ Cardinality(handled) >= MaxPages

====
